---- MODULE Spec2Model ----
(***************************************************************************)
(* Container property engine of the porto daemon (src/src/property.cpp)    *)
(* with the value codecs of src/src/util/string.cpp.                       *)
(*                                                                         *)
(* A std::string is a sequence of one-character strings, a bit mask is the *)
(* set of its bits, a TError is the name of its EError kind ("Success"     *)
(* for no error).  Every property handler is an operator from the current  *)
(* container tree, the current container, the current client and the       *)
(* request to the pair <error, new tree>, composed exactly in the order of *)
(* the statements of the handler; a request is one action, which applies  *)
(* the handler the registry holds for the property it names.               *)
(***************************************************************************)
EXTENDS Integers, Sequences, FiniteSets, TLC

VARIABLES
    Container,   \* name -> TContainer record (the container tree)
    last,        \* the last request served and its outcome
    nreq,        \* number of client requests served so far
    ops          \* thread -> the set of memory_guarantee it serves step by
                 \* step: its position in the handler and its locals

vars == <<Container, last, nreq, ops>>

-----------------------------------------------------------------------------
(* Bounds of the model *)

\* client requests served in one behaviour
MaxRequests == 2

-----------------------------------------------------------------------------
(* Characters and strings *)

NUL == "NUL"

Digits == {"0", "1", "2", "3", "4", "5", "6", "7", "8", "9"}

DigitVal(ch) ==
    CASE ch = "0" -> 0 [] ch = "1" -> 1 [] ch = "2" -> 2 [] ch = "3" -> 3
      [] ch = "4" -> 4 [] ch = "5" -> 5 [] ch = "6" -> 6 [] ch = "7" -> 7
      [] ch = "8" -> 8 [] ch = "9" -> 9

\* isspace() and isblank() of the C locale
IsSpace(ch) == ch \in {" ", "\t", "\n"}
IsBlank(ch) == ch \in {" ", "\t"}

\* s[i] of a std::string / C string: the terminator past the end
At(s, i) == IF i >= 1 /\ i <= Len(s) THEN s[i] ELSE NUL

ToLower(ch) ==
    CASE ch = "B" -> "b" [] ch = "K" -> "k" [] ch = "M" -> "m" [] ch = "G" -> "g"
      [] ch = "T" -> "t" [] ch = "P" -> "p" [] ch = "E" -> "e" [] OTHER -> ch

RECURSIVE Pow(_, _)
Pow(b, e) == IF e = 0 THEN 1 ELSE b * Pow(b, e - 1)

\* a local of the code: v computed once, then used by F under its name
Bind(v, F(_)) == F(v)

\* first position >= i of s holding no character of set (Len(s)+1 if none)
RECURSIVE SkipWhile(_, _, _)
SkipWhile(s, i, set) ==
    IF i <= Len(s) /\ s[i] \in set THEN SkipWhile(s, i + 1, set) ELSE i

\* last position <= i of s holding no character of set (0 if none)
RECURSIVE SkipBack(_, _, _)
SkipBack(s, i, set) ==
    IF i >= 1 /\ s[i] \in set THEN SkipBack(s, i - 1, set) ELSE i

\* the decimal number written by the digits s[i..j-1]
RECURSIVE DigitsValue(_, _, _)
DigitsValue(s, i, j) ==
    IF j <= i THEN 0 ELSE DigitsValue(s, i, j - 1) * 10 + DigitVal(s[j - 1])

TrimChars == {" ", "\t", "\n"}

StringTrim(s) ==
    LET first == SkipWhile(s, 1, TrimChars)
        lst   == SkipBack(s, Len(s), TrimChars)
    IN  IF first > Len(s) \/ lst < 1 THEN << >> ELSE SubSeq(s, first, lst)

BoolToString(b) == IF b THEN <<"t", "r", "u", "e">> ELSE <<"f", "a", "l", "s", "e">>

\* [error, value]; value is left alone (old) on error
StringToBool(str, old) ==
    IF str = <<"t", "r", "u", "e">> THEN [error |-> "Success", value |-> TRUE]
    ELSE IF str = <<"f", "a", "l", "s", "e">> THEN [error |-> "Success", value |-> FALSE]
    ELSE [error |-> "Unknown", value |-> old]

\* strtod over decimal notation: the value is neg * num / den, den a power
\* of 10; the unit is what follows the number, blanks cut at both ends
StringToValue(str) ==
    Bind(SkipWhile(str, 1, TrimChars), LAMBDA p0 :
    Bind(IF At(str, p0) \in {"-", "+"} THEN p0 + 1 ELSE p0, LAMBDA p1 :
    Bind(SkipWhile(str, p1, Digits), LAMBDA p2 :
    Bind(IF At(str, p2) = "." THEN SkipWhile(str, p2 + 1, Digits) ELSE p2, LAMBDA p3 :
        LET hasDot == At(str, p2) = "."
            nInt   == p2 - p1
            nFrac  == IF hasDot THEN p3 - (p2 + 1) ELSE 0
            u0     == SkipWhile(str, p3, {" ", "\t"})
            u1     == SkipBack(str, Len(str), {" ", "\t"})
        IN  IF nInt + nFrac = 0
            THEN [error |-> "InvalidValue", neg |-> FALSE, num |-> 0, den |-> 1,
                  unit |-> << >>]
            ELSE [error |-> "Success",
                  neg   |-> At(str, p0) = "-",
                  num   |-> DigitsValue(str, p1, p2) * Pow(10, nFrac)
                            + (IF hasDot THEN DigitsValue(str, p2 + 1, p3) ELSE 0),
                  den   |-> Pow(10, nFrac),
                  unit  |-> IF u0 > u1 THEN << >> ELSE SubSeq(str, u0, u1)]))))

size_unit == <<"B", "K", "M", "G", "T", "P", "E">>

\* index (from 0) of the first unit letter matching ch, -1 if none
UnitIndex(ch) ==
    LET m == {i \in 1..Len(size_unit) : ch = size_unit[i] \/ ch = ToLower(size_unit[i])}
    IN  IF m = {} THEN -1 ELSE (CHOOSE i \in m : \A j \in m : i <= j) - 1

\* [error, size]: a non-negative value times 2^(10*i), truncated
StringToSize(str) ==
    Bind(StringToValue(str), LAMBDA v :
        LET i == UnitIndex(At(v.unit, 1))
            scaled(k) == (v.num * Pow(2, 10 * k)) \div v.den
            u1 == At(v.unit, 2)
            u2 == At(v.unit, 3)
        IN  IF v.error # "Success" THEN [error |-> v.error, size |-> 0]
            ELSE IF At(v.unit, 1) = NUL THEN [error |-> "Success", size |-> scaled(0)]
            ELSE IF i < 0 THEN [error |-> "InvalidValue", size |-> 0]
            ELSE IF u1 \in {"b", "B"} /\ i # 0 /\ u2 = NUL
                 THEN [error |-> "Success", size |-> scaled(i)]
            ELSE IF u1 = "i" /\ i # 0 /\ u2 = "B"
                 THEN [error |-> "Success", size |-> scaled(i)]
            ELSE IF u1 = NUL THEN [error |-> "Success", size |-> scaled(i)]
            ELSE [error |-> "InvalidValue", size |-> scaled(i)])

\* A uint64_t beyond the integers of the model is written as the integer
\* nearest to 0 that is congruent to it modulo 2^64 (2^64 - 1 as -1): sums
\* are then the sums of the model, and a > b of two uint64_t is
U64Greater(a, b) == IF (a < 0) # (b < 0) THEN a < 0 ELSE a > b

\* size = value, the conversion of a double to uint64_t, is undefined for a
\* value of -1 or below: a build either wraps it (x86-64: 2^64 - n) or
\* saturates it (arm64: 0)
DoubleCasts == {"wraps", "saturates"}

\* StringToSize(str, size) with the outcome cast of that conversion
StringToSizeCast(str, cast) ==
    Bind(StringToSize(str), LAMBDA s :
        IF s.error = "Success" /\ StringToValue(str).neg /\ s.size > 0
        THEN [error |-> "Success", size |-> IF cast = "wraps" THEN 0 - s.size ELSE 0]
        ELSE s)

-----------------------------------------------------------------------------
(* Escaped tuples, maps and flag masks *)

\* std::getline(ss, tok, sep) repeated from position p: the tokens read
RECURSIVE GetLines(_, _, _)
GetLines(s, p, sep) ==
    IF p > Len(s) THEN << >>
    ELSE LET q == SkipWhile(s, p, {ch \in {s[k] : k \in p..Len(s)} : ch # sep})
         IN  <<SubSeq(s, p, q - 1)>> \o GetLines(s, q + 1, sep)

\* The scan of SplitEscapedString from position i: ss is the token being
\* collected, tuples the tuples so far (the last one open).  sep_outer = NUL
\* stands for the call that gives no outer separator.
RECURSIVE SplitScan(_, _, _, _, _, _)
SplitScan(str, i, ss, tuples, sep_inner, sep_outer) ==
    LET ch     == At(str, i)
        atEnd  == i > Len(str)
        isOut  == sep_outer # NUL /\ ch = sep_outer /\ ~atEnd
        isSep  == (~atEnd /\ ch = sep_inner) \/ isOut \/ atEnd
        s      == StringTrim(ss)
        n      == Len(tuples)
        pushed == IF Len(s) > 0
                  THEN [tuples EXCEPT ![n] = Append(tuples[n], s)]
                  ELSE tuples
        opened == IF isOut /\ Len(pushed[n]) > 0 THEN Append(pushed, << >>) ELSE pushed
        nxt    == At(str, i + 1)
        isEsc  == ch = "\\" /\ i + 1 <= Len(str)
                  /\ (nxt = "\\" \/ nxt = sep_inner \/ (sep_outer # NUL /\ nxt = sep_outer))
    IN  IF isSep
        THEN IF atEnd THEN pushed
             ELSE SplitScan(str, i + 1, << >>, opened, sep_inner, sep_outer)
        ELSE IF isEsc
             THEN SplitScan(str, i + 2, Append(ss, nxt), tuples, sep_inner, sep_outer)
             ELSE SplitScan(str, i + 1, Append(ss, ch), tuples, sep_inner, sep_outer)

\* SplitEscapedString(str, tuples, sep_inner, sep_outer) into an empty TMultiTuple
SplitEscapedString(str, sep_inner, sep_outer) ==
    Bind(SplitScan(str, 1, << >>, << << >> >>, sep_inner, sep_outer),
         LAMBDA tuples :
             IF Len(tuples[Len(tuples)]) = 0
             THEN SubSeq(tuples, 1, Len(tuples) - 1)
             ELSE tuples)

\* SplitEscapedString(str, tuple, sep) into an empty TTuple
SplitEscapedTuple(str, sep) ==
    Bind(SplitEscapedString(str, sep, NUL),
         LAMBDA tuples : IF Len(tuples) > 0 THEN tuples[1] ELSE << >>)

\* copy.find(from, n): the first position at or after n where from stands,
\* 0 for npos
StringFind(copy, from, n) ==
    LET hits == {k \in n..(Len(copy) - Len(from) + 1) :
                    SubSeq(copy, k, k + Len(from) - 1) = from}
    IN  IF hits = {} THEN 0 ELSE CHOOSE k \in hits : \A m \in hits : k <= m

\* the loop of StringReplaceAll from position n of copy
RECURSIVE ReplaceLoop(_, _, _, _)
ReplaceLoop(copy, n, from, to) ==
    LET k == StringFind(copy, from, n)
    IN  IF k = 0 THEN copy
        ELSE ReplaceLoop(SubSeq(copy, 1, k - 1) \o to \o SubSeq(copy, k + Len(from), Len(copy)),
                         k + Len(to), from, to)

\* StringReplaceAll(str, from, to)
StringReplaceAll(str, from, to) == ReplaceLoop(str, 1, from, to)

\* the inner loop of MergeEscapeStrings over the strings tuple[j..]
RECURSIVE MergeTuple(_, _, _, _)
MergeTuple(tuple, j, sep_inner, sep_outer) ==
    IF j > Len(tuple) THEN << >>
    ELSE LET esc1 == StringReplaceAll(tuple[j], <<"\\">>, <<"\\", "\\">>)
             esc2 == StringReplaceAll(esc1, <<sep_inner>>, <<"\\", sep_inner>>)
             escaped == IF sep_outer # NUL
                        THEN StringReplaceAll(esc2, <<sep_outer>>, <<"\\", sep_outer>>)
                        ELSE esc2
         IN  (IF j > 1 THEN <<sep_inner>> ELSE << >>) \o escaped
                 \o MergeTuple(tuple, j + 1, sep_inner, sep_outer)

\* the outer loop of MergeEscapeStrings over tuples[k..]
RECURSIVE MergeLoop(_, _, _, _, _)
MergeLoop(tuples, k, first_outer, sep_inner, sep_outer) ==
    IF k > Len(tuples) THEN << >>
    ELSE LET here == IF Len(tuples[k]) > 0
                     THEN (IF ~first_outer THEN <<sep_outer>> ELSE << >>)
                              \o MergeTuple(tuples[k], 1, sep_inner, sep_outer)
                     ELSE << >>
             first == first_outer /\ Len(tuples[k]) = 0
         IN  IF sep_outer = NUL THEN here
             ELSE here \o MergeLoop(tuples, k + 1, first, sep_inner, sep_outer)

\* MergeEscapeStrings(tuples, sep_inner, sep_outer)
MergeEscapeStrings(tuples, sep_inner, sep_outer) ==
    MergeLoop(tuples, 1, TRUE, sep_inner, sep_outer)

EmptyMap == [x \in {} |-> 0]

\* map[key] = val
MapPut(map, key, val) == [x \in DOMAIN map \cup {key} |-> IF x = key THEN val ELSE map[x]]

\* map[key] as operator[] reads it: 0 for a key it has to insert
MapAt(map, key) == IF key \in DOMAIN map THEN map[key] ELSE 0

\* The loop of StringToUintMap over lines[k..]: result is the map so far
RECURSIVE UintMapLines(_, _, _)
UintMapLines(lines, k, result) ==
    IF k > Len(lines) THEN [error |-> "Success", map |-> result]
    ELSE Bind(SplitEscapedTuple(lines[k], ":"), LAMBDA nameval :
             IF Len(nameval) # 2 THEN [error |-> "InvalidValue", map |-> result]
             ELSE Bind(StringTrim(nameval[1]), LAMBDA key :
                  Bind(StringToSize(nameval[2]), LAMBDA val :
                      IF val.error # "Success"
                      THEN [error |-> "InvalidValue", map |-> result]
                      ELSE UintMapLines(lines, k + 1, MapPut(result, key, val.size)))))

StringToUintMap(value) == UintMapLines(SplitEscapedTuple(value, ";"), 1, EmptyMap)

\* The loop of StringToStringMap over lines[k..]
RECURSIVE StringMapLines(_, _, _)
StringMapLines(lines, k, result) ==
    IF k > Len(lines) THEN [error |-> "Success", map |-> result]
    ELSE Bind(SplitEscapedTuple(lines[k], ":"), LAMBDA nameval :
             IF Len(nameval) # 2 THEN [error |-> "InvalidValue", map |-> result]
             ELSE StringMapLines(lines, k + 1,
                      MapPut(result, StringTrim(nameval[1]), StringTrim(nameval[2]))))

StringToStringMap(value) == StringMapLines(SplitEscapedTuple(value, ";"), 1, EmptyMap)

\* The loop of StringParseFlags over the names read: names is a sequence of
\* <<mask, name>> pairs, a mask the set of its bits.
RECURSIVE ParseFlagNames(_, _, _, _)
ParseFlagNames(toks, k, names, result) ==
    IF k > Len(toks) THEN [error |-> "Success", flags |-> result]
    ELSE LET name == StringTrim(toks[k])
             hit  == {n \in 1..Len(names) : names[n][2] = name}
         IN  IF hit = {} THEN [error |-> "InvalidValue", flags |-> result]
             ELSE ParseFlagNames(toks, k + 1, names,
                      result \cup names[CHOOSE n \in hit : \A m \in hit : n <= m][1])

StringParseFlags(str, names, sep) == ParseFlagNames(GetLines(str, 1, sep), 1, names, {})

-----------------------------------------------------------------------------
(* The container tree, credentials and clients *)

EError == {"Success", "Unknown", "InvalidValue", "InvalidState", "InvalidProperty",
           "Permission", "NotSupported", "ResourceNotAvailable"}

EContainerState == {"Stopped", "Starting", "Running", "Paused", "Dead"}

ROOT_CONTAINER == "/"
NoParent == "nullptr"
Names == {"/", "a", "a/b"}

\* TContainer::Parent / GetParent()
GetParent(c) == CASE c = "/" -> NoParent [] c = "a" -> "/" [] c = "a/b" -> "a"

\* the chain Parent, Parent->Parent, ... of c
RECURSIVE Ancestors(_)
Ancestors(c) ==
    IF GetParent(c) = NoParent THEN {} ELSE {GetParent(c)} \cup Ancestors(GetParent(c))

IsRoot(c) == c = ROOT_CONTAINER

\* the credential store: user and group names with their ids
RootCred  == [Uid |-> 0, Gid |-> 0, Groups |-> {0}]
AliceCred == [Uid |-> 1000, Gid |-> 1000, Groups |-> {1000, 100}]
BobCred   == [Uid |-> 1001, Gid |-> 1001, Groups |-> {1001}]

UserTable == <<[name |-> <<"r", "o", "o", "t">>, cred |-> RootCred],
               [name |-> <<"a", "l", "i", "c", "e">>, cred |-> AliceCred],
               [name |-> <<"b", "o", "b">>, cred |-> BobCred]>>

GroupTable == <<[name |-> <<"r", "o", "o", "t">>, gid |-> 0],
                [name |-> <<"a", "l", "i", "c", "e">>, gid |-> 1000],
                [name |-> <<"b", "o", "b">>, gid |-> 1001],
                [name |-> <<"u", "s", "e", "r", "s">>, gid |-> 100]>>

IsRootUser(cred) == cred.Uid = 0
IsMemberOf(cred, gid) == cred.Gid = gid \/ gid \in cred.Groups

\* TCred::Load(username): [error, cred]
CredLoad(username) ==
    LET hit == {i \in 1..Len(UserTable) : UserTable[i].name = username}
    IN  IF hit = {} THEN [error |-> "InvalidValue", cred |-> [Uid |-> -1, Gid |-> -1, Groups |-> {}]]
        ELSE [error |-> "Success", cred |-> UserTable[CHOOSE i \in hit : TRUE].cred]

\* UserId(name, uid): a user name or a numeric id
UserId(username) ==
    LET hit == {i \in 1..Len(UserTable) : UserTable[i].name = username}
    IN  IF hit # {} THEN [error |-> "Success", id |-> UserTable[CHOOSE i \in hit : TRUE].cred.Uid]
        ELSE IF Len(username) > 0 /\ \A k \in 1..Len(username) : username[k] \in Digits
             THEN [error |-> "Success", id |-> DigitsValue(username, 1, Len(username) + 1)]
        ELSE [error |-> "InvalidValue", id |-> -1]

\* GroupId(name, gid): a group name or a numeric id
GroupId(groupname) ==
    LET hit == {i \in 1..Len(GroupTable) : GroupTable[i].name = groupname}
    IN  IF hit # {} THEN [error |-> "Success", id |-> GroupTable[CHOOSE i \in hit : TRUE].gid]
        ELSE IF Len(groupname) > 0 /\ \A k \in 1..Len(groupname) : groupname[k] \in Digits
             THEN [error |-> "Success", id |-> DigitsValue(groupname, 1, Len(groupname) + 1)]
        ELSE [error |-> "InvalidValue", id |-> -1]

\* the clients: host root, and an unprivileged user working from container a
RootClient  == [Cred |-> RootCred, CanSetUidGid |-> TRUE, ClientContainer |-> "/"]
AliceClient == [Cred |-> AliceCred, CanSetUidGid |-> FALSE, ClientContainer |-> "a"]
Clients == {RootClient, AliceClient}

\* TClient::IsSuperUser()
IsSuperUser(client) == IsRootUser(client.Cred)

\* TClient::CanControl(cred)
CanControl(client, cred) ==
    IF IsSuperUser(client) \/ client.Cred.Uid = cred.Uid THEN "Success" ELSE "Permission"

\* TContainer::IsChildOf(base)
IsChildOf(c, base) == base \in Ancestors(c)

-----------------------------------------------------------------------------
(* Capabilities and controllers *)

CapNames == <<<<{"CAP_NET_ADMIN"}, <<"N", "E", "T", "_", "A", "D", "M", "I", "N">>>>,
              <<{"CAP_SYS_ADMIN"}, <<"S", "Y", "S", "_", "A", "D", "M", "I", "N">>>>,
              <<{"CAP_SYS_PTRACE"}, <<"S", "Y", "S", "_", "P", "T", "R", "A", "C", "E">>>>,
              <<{"CAP_NET_BIND_SERVICE"}, <<"N", "E", "T", "_", "B", "I", "N", "D", "_", "S", "E", "R", "V", "I", "C", "E">>>>,
              <<{"CAP_AUDIT_READ"}, <<"A", "U", "D", "I", "T", "_", "R", "E", "A", "D">>>>>>

\* the capabilities of the running kernel (AUDIT_READ is named but not present)
AllCapabilities == [Permitted |-> {"CAP_NET_ADMIN", "CAP_SYS_ADMIN", "CAP_SYS_PTRACE",
                                   "CAP_NET_BIND_SERVICE"}]
OsModeCapabilities == [Permitted |-> {"CAP_NET_ADMIN", "CAP_SYS_PTRACE",
                                      "CAP_NET_BIND_SERVICE"}]
SuidCapabilities == [Permitted |-> {"CAP_NET_ADMIN", "CAP_NET_BIND_SERVICE"}]

\* TCapabilities::Parse(str): names separated by ';'
CapParse(str) ==
    LET r == StringParseFlags(str, CapNames, ";")
    IN  [error |-> r.error, caps |-> [Permitted |-> r.flags]]

CGROUP_MEMORY  == "CGROUP_MEMORY"
CGROUP_CPU     == "CGROUP_CPU"
CGROUP_CPUSET  == "CGROUP_CPUSET"
CGROUP_BLKIO   == "CGROUP_BLKIO"
CGROUP_NETCLS  == "CGROUP_NETCLS"
CGROUP_DEVICES == "CGROUP_DEVICES"
CGROUP_PIDS    == "CGROUP_PIDS"
CGROUP_HUGETLB == "CGROUP_HUGETLB"

ControllersName == <<<<{CGROUP_MEMORY}, <<"m", "e", "m", "o", "r", "y">>>>,
                     <<{CGROUP_CPU}, <<"c", "p", "u">>>>,
                     <<{CGROUP_CPUSET}, <<"c", "p", "u", "s", "e", "t">>>>,
                     <<{CGROUP_BLKIO}, <<"b", "l", "k", "i", "o">>>>,
                     <<{CGROUP_NETCLS}, <<"n", "e", "t", "_", "c", "l", "s">>>>,
                     <<{CGROUP_DEVICES}, <<"d", "e", "v", "i", "c", "e", "s">>>>,
                     <<{CGROUP_PIDS}, <<"p", "i", "d", "s">>>>,
                     <<{CGROUP_HUGETLB}, <<"h", "u", "g", "e", "t", "l", "b">>>>>>

AllControllers == UNION {ControllersName[i][1] : i \in 1..Len(ControllersName)}

-----------------------------------------------------------------------------
(* Configuration and host *)

\* config().container().min_memory_limit()
min_memory_limit == 1024
\* config().container().stdout_limit_max()
stdout_limit_max == 4096
\* config().container().private_max()
private_max == 4
\* config().daemon().memory_guarantee_reserve()
memory_guarantee_reserve == 10
\* GetTotalMemory()
TotalMemory == 100
\* GetNumCores()
NumCores == 4

-----------------------------------------------------------------------------
(* TContainer *)

NoStream == [Path |-> << >>, Limit |-> 0, Offset |-> 0]

\* a container as TContainer's constructor leaves it
NewContainer(state, owner) ==
    [State |-> state,
     OwnerCred |-> owner, TaskCred |-> owner,
     VirtMode |-> "VIRT_MODE_APP",
     Root |-> <<"/">>, RootRo |-> FALSE, Cwd |-> << >>, Umask |-> 2, BindMounts |-> << >>,
     Command |-> << >>, EnvCfg |-> << >>, Ulimit |-> EmptyMap, Isolate |-> TRUE,
     BindDns |-> FALSE, Hostname |-> << >>, ResolvConf |-> << >>, Devices |-> << >>,
     CpuPolicy |-> <<"n", "o", "r", "m", "a", "l">>, SchedPolicy |-> "SCHED_OTHER", SchedPrio |-> 0, SchedNice |-> 0,
     CpuLimit |-> [num |-> NumCores, den |-> 1],
     CpuGuarantee |-> [num |-> 0, den |-> 1], CpuSet |-> << >>,
     MemLimit |-> 0, MemGuarantee |-> 0, NewMemGuarantee |-> 0,
     AnonMemLimit |-> 0, DirtyMemLimit |-> 0, HugetlbLimit |-> 0,
     RechargeOnPgfault |-> FALSE,
     IoPolicy |-> <<"n", "o", "r", "m", "a", "l">>, IoBpsLimit |-> EmptyMap, IoOpsLimit |-> EmptyMap,
     ThreadLimit |-> 0,
     NetProp |-> <<<<<<"i", "n", "h", "e", "r", "i", "t", "e", "d">>>>>>, IpList |-> << >>, DefaultGw |-> << >>,
     NetGuarantee |-> EmptyMap, NetLimit |-> EmptyMap, NetPriority |-> EmptyMap,
     CapLimit |-> IF IsRootUser(owner) THEN AllCapabilities ELSE SuidCapabilities,
     CapAmbient |-> [Permitted |-> {}],
     CapAllowed |-> IF IsRootUser(owner) THEN AllCapabilities ELSE SuidCapabilities,
     ToRespawn |-> FALSE, MaxRespawns |-> -1, AgingTime |-> 0, IsWeak |-> FALSE,
     OomIsFatal |-> TRUE, AccessLevel |-> "Normal", NsName |-> << >>, Private |-> << >>,
     Stdin |-> NoStream, Stdout |-> NoStream, Stderr |-> NoStream,
     Controllers |-> {}, RequiredControllers |-> {},
     StartTime |-> 0, DeathTime |-> 0, ExitStatus |-> 0, OomKilled |-> FALSE,
     RespawnCount |-> 0,
     TaskPid |-> 0, TaskVPid |-> 0, WaitTaskPid |-> 0, SeizePid |-> 0, LoopDev |-> 0 - 1,
     HasSmart |-> FALSE,
     PropMask |-> {}]

\* TContainer::SetProp / ClearProp / HasProp on the presence bitmap
SetProp(T, c, prop) == [T EXCEPT ![c].PropMask = @ \cup {prop}]
ClearProp(T, c, prop) == [T EXCEPT ![c].PropMask = @ \ {prop}]
HasProp(T, c, prop) == prop \in T[c].PropMask

\* CurrentContainer-><field> = val
Upd(T, c, field, val) == [T EXCEPT ![c][field] = val]

\* what a handler returns: the TError, the tree it leaves, and the
\* WantControllers calls it made (mask and answer of each)
Ret(error, T, wc) == [error |-> error, T |-> T, wc |-> wc]

-----------------------------------------------------------------------------
(* State guards and controller activation *)

IsAliveAndStopped_NotDead(T, c) ==
    IF T[c].State = "Dead" THEN "InvalidState" ELSE "Success"

IsAliveAndStopped(T, c) ==
    IF T[c].State # "Stopped" THEN "InvalidState" ELSE "Success"

IsAlive_Never(T, c) == "Success"

IsAlive(T, c) ==
    IF T[c].State = "Dead" THEN "InvalidState" ELSE "Success"

IsDead_NotStopped(T, c) ==
    IF T[c].State = "Stopped" THEN "InvalidState" ELSE "Success"

IsDead(T, c) ==
    IF T[c].State # "Dead" THEN "InvalidState" ELSE "Success"

IsRunning_NotDead(T, c) ==
    IF T[c].State \in {"Stopped", "Dead"} THEN "InvalidState" ELSE "Success"

IsRunning(T, c) ==
    IF T[c].State = "Stopped" THEN "InvalidState" ELSE "Success"

\* the record of one WantControllers call: the mask asked for, the answer,
\* and the two fields of the container before and after the call
Called(controllers, error, T, T1, c) ==
    <<[mask |-> controllers, error |-> error, state |-> T[c].State,
       before |-> [Controllers |-> T[c].Controllers,
                   RequiredControllers |-> T[c].RequiredControllers],
       after |-> [Controllers |-> T1[c].Controllers,
                  RequiredControllers |-> T1[c].RequiredControllers]]>>

\* the result of a WantControllers call that leaves the tree T1
Wanted(controllers, error, T, T1, c) == Ret(error, T1, Called(controllers, error, T, T1, c))

WantControllers_OnlyControllers(T, c, controllers) ==
    IF T[c].State = "Stopped"
    THEN Wanted(controllers, "Success", T,
                [T EXCEPT ![c].Controllers = @ \cup controllers], c)
    ELSE IF (T[c].Controllers \cap controllers) # controllers
         THEN Wanted(controllers, "NotSupported", T, T, c)
         ELSE Wanted(controllers, "Success", T, T, c)

WantControllers_AtRuntime(T, c, controllers) ==
    Wanted(controllers, "Success", T,
           [T EXCEPT ![c].Controllers = @ \cup controllers,
                     ![c].RequiredControllers = @ \cup controllers], c)

\* TProperty::WantControllers(controllers)
WantControllers(T, c, controllers) ==
    IF T[c].State = "Stopped"
    THEN Wanted(controllers, "Success", T,
                [T EXCEPT ![c].Controllers = @ \cup controllers,
                          ![c].RequiredControllers = @ \cup controllers], c)
    ELSE IF (T[c].Controllers \cap controllers) # controllers
         THEN Wanted(controllers, "NotSupported", T, T, c)
         ELSE Wanted(controllers, "Success", T, T, c)

\* TContainer::SanitizeCapabilities(): CapAllowed is recomputed for the
\* current client and CapAmbient is clamped to it
SanitizeCapabilities(T, c, client) ==
    LET start == IF IsSuperUser(client) THEN AllCapabilities.Permitted
                 ELSE IF T[c].VirtMode = "VIRT_MODE_OS" THEN OsModeCapabilities.Permitted
                 ELSE SuidCapabilities.Permitted
        bound == IF ~IsSuperUser(client) \/ ~IsRootUser(T[c].OwnerCred)
                 THEN {b \in start : \A p \in Ancestors(c) : b \in T[p].CapLimit.Permitted}
                 ELSE start
    IN  [T EXCEPT ![c].CapAllowed = [Permitted |-> bound],
                  ![c].CapAmbient = [Permitted |-> @.Permitted \cap bound]]

-----------------------------------------------------------------------------
(* Integer codecs (std::stoi, std::stoul, std::stoull behind a catch) *)

\* the digits of set that open str after blanks and an optional sign:
\* [neg, from, to] with the digits in str[from..to-1]
NumberPrefix(str, set) ==
    LET p0 == SkipWhile(str, 1, TrimChars)
        p1 == IF At(str, p0) \in {"-", "+"} THEN p0 + 1 ELSE p0
    IN  [neg |-> At(str, p0) = "-", from |-> p1, to |-> SkipWhile(str, p1, set)]

\* the number written in base 8 by the digits s[i..j-1]
RECURSIVE OctalValue(_, _, _)
OctalValue(s, i, j) ==
    IF j <= i THEN 0 ELSE OctalValue(s, i, j - 1) * 8 + DigitVal(s[j - 1])

\* the digits s[i..j-1] spell a number above the one max spells (both in
\* the same base): the test behind std::out_of_range
ExceedsMax(s, i, j, max) ==
    LET i0 == IF SkipWhile(s, i, {"0"}) > j THEN j ELSE SkipWhile(s, i, {"0"})
        n  == j - i0
    IN  \/ n > Len(max)
        \/ /\ n = Len(max)
           /\ \E k \in 1..n : /\ DigitVal(s[i0 + k - 1]) > DigitVal(max[k])
                              /\ \A m \in 1..(k - 1) : s[i0 + m - 1] = max[m]

ULONG_MAX_OCT == <<"1", "7", "7", "7", "7", "7", "7", "7", "7", "7", "7", "7", "7", "7", "7", "7", "7", "7", "7", "7", "7", "7">>
ULONG_MAX_DEC == <<"1", "8", "4", "4", "6", "7", "4", "4", "0", "7", "3", "7", "0", "9", "5", "5", "1", "6", "1", "5">>
INT_MAX_DEC   == <<"2", "1", "4", "7", "4", "8", "3", "6", "4", "7">>
INT_MIN_DEC   == <<"2", "1", "4", "7", "4", "8", "3", "6", "4", "8">>

\* StringToOct(str, value): stoul in base 8. An unsigned value is kept as the
\* signed reading of its bits, so that "-1" is -1 and not 2^32 - 1.
StringToOct(str, old) ==
    LET p == NumberPrefix(str, {"0", "1", "2", "3", "4", "5", "6", "7"})
        v == OctalValue(str, p.from, p.to)
    IN  IF p.to = p.from \/ ExceedsMax(str, p.from, p.to, ULONG_MAX_OCT)
        THEN [error |-> "Unknown", value |-> old]
        ELSE [error |-> "Success", value |-> IF p.neg THEN 0 - v ELSE v]

\* StringToInt(str, value)
StringToInt(str, old) ==
    LET p == NumberPrefix(str, Digits)
        v == DigitsValue(str, p.from, p.to)
    IN  IF p.to = p.from
           \/ ExceedsMax(str, p.from, p.to, IF p.neg THEN INT_MIN_DEC ELSE INT_MAX_DEC)
        THEN [error |-> "Unknown", value |-> old]
        ELSE [error |-> "Success", value |-> IF p.neg THEN 0 - v ELSE v]

\* StringToUint64(str, value): stoull, kept as the signed reading of its bits
StringToUint64(str, old) ==
    LET p == NumberPrefix(str, Digits)
        v == DigitsValue(str, p.from, p.to)
    IN  IF p.to = p.from \/ ExceedsMax(str, p.from, p.to, ULONG_MAX_DEC)
        THEN [error |-> "Unknown", value |-> old]
        ELSE [error |-> "Success", value |-> IF p.neg THEN 0 - v ELSE v]

\* StringToCpuValue(str, value): cores as the fraction num / den
StringToCpuValue(str) ==
    LET v == StringToValue(str)
    IN  IF v.error # "Success" \/ (v.neg /\ v.num > 0)
        THEN [error |-> "InvalidValue", value |-> [num |-> 0, den |-> 1]]
        ELSE IF v.unit = << >>
             THEN [error |-> "Success",
                   value |-> [num |-> v.num * NumCores, den |-> v.den * 100]]
        ELSE IF v.unit = <<"c">>
             THEN [error |-> "Success", value |-> [num |-> v.num, den |-> v.den]]
        ELSE [error |-> "InvalidValue", value |-> [num |-> 0, den |-> 1]]

\* a > b and a = b on fractions
CpuGreater(a, b) == a.num * b.den > b.num * a.den
CpuEqual(a, b) == a.num * b.den = b.num * a.den

-----------------------------------------------------------------------------
(* Property handlers: capabilities *)

\* TCapLimit::CommitLimit with the bound never cut by the ancestors
TCapLimit_CommitLimit_NoAncestors(T, c, client, limit) ==
    LET error == IsAliveAndStopped(T, c)
        start == IF IsSuperUser(client) THEN AllCapabilities.Permitted
                 ELSE IF T[c].VirtMode = "VIRT_MODE_OS" THEN OsModeCapabilities.Permitted
                 ELSE SuidCapabilities.Permitted
    IN  IF error # "Success" THEN Ret(error, T, << >>)
        ELSE IF limit.Permitted \ AllCapabilities.Permitted # {}
             THEN Ret("InvalidValue", T, << >>)
        ELSE IF limit.Permitted \ start # {} THEN Ret("Permission", T, << >>)
        ELSE Ret("Success",
                 SanitizeCapabilities(
                     SetProp(Upd(T, c, "CapLimit", limit), c, "CAPABILITIES"), c, client),
                 << >>)

\* TCapLimit::CommitLimit(limit)
TCapLimit_CommitLimit(T, c, client, limit) ==
    LET error == IsAliveAndStopped(T, c)
        start == IF IsSuperUser(client) THEN AllCapabilities.Permitted
                 ELSE IF T[c].VirtMode = "VIRT_MODE_OS" THEN OsModeCapabilities.Permitted
                 ELSE SuidCapabilities.Permitted
        bound == IF ~IsSuperUser(client) \/ ~IsRootUser(T[c].OwnerCred)
                 THEN {b \in start : \A p \in Ancestors(c) : b \in T[p].CapLimit.Permitted}
                 ELSE start
    IN  IF error # "Success" THEN Ret(error, T, << >>)
        ELSE IF limit.Permitted \ AllCapabilities.Permitted # {}
             THEN Ret("InvalidValue", T, << >>)
        ELSE IF limit.Permitted \ bound # {} THEN Ret("Permission", T, << >>)
        ELSE Ret("Success",
                 SanitizeCapabilities(
                     SetProp(Upd(T, c, "CapLimit", limit), c, "CAPABILITIES"), c, client),
                 << >>)

\* TCapLimit::Set(value)
TCapLimit_Set(T, c, client, value) ==
    LET p == CapParse(value)
    IN  IF p.error # "Success" THEN Ret(p.error, T, << >>)
        ELSE TCapLimit_CommitLimit(T, c, client, p.caps)

\* TCapLimit::SetIndexed with the bits of the index added whatever the value
TCapLimit_SetIndexed_OnlyAdds(T, c, client, index, value) ==
    LET p == CapParse(index)
        b == StringToBool(value, FALSE)
    IN  IF p.error # "Success" THEN Ret(p.error, T, << >>)
        ELSE IF b.error # "Success" THEN Ret(b.error, T, << >>)
        ELSE TCapLimit_CommitLimit(T, c, client,
                 [Permitted |-> T[c].CapLimit.Permitted \cup p.caps.Permitted])

\* TCapLimit::SetIndexed(index, value)
TCapLimit_SetIndexed(T, c, client, index, value) ==
    LET p == CapParse(index)
        b == StringToBool(value, FALSE)
        caps == IF b.value THEN T[c].CapLimit.Permitted \cup p.caps.Permitted
                ELSE T[c].CapLimit.Permitted \ p.caps.Permitted
    IN  IF p.error # "Success" THEN Ret(p.error, T, << >>)
        ELSE IF b.error # "Success" THEN Ret(b.error, T, << >>)
        ELSE TCapLimit_CommitLimit(T, c, client, [Permitted |-> caps])

\* TCapAmbient::CommitAmbient that never raises the limit
TCapAmbient_CommitAmbient_NoRaise(T, c, client, ambient) ==
    LET error == IsAliveAndStopped(T, c)
    IN  IF error # "Success" THEN Ret(error, T, << >>)
        ELSE IF ambient.Permitted \ AllCapabilities.Permitted # {}
             THEN Ret("InvalidValue", T, << >>)
        ELSE IF ambient.Permitted \ T[c].CapAllowed.Permitted # {} /\ ~IsSuperUser(client)
             THEN Ret("Permission", T, << >>)
        ELSE Ret("Success",
                 SanitizeCapabilities(
                     SetProp(Upd(T, c, "CapAmbient", ambient), c, "CAPABILITIES_AMBIENT"),
                     c, client),
                 << >>)

\* TCapAmbient::CommitAmbient(ambient)
TCapAmbient_CommitAmbient(T, c, client, ambient) ==
    LET error == IsAliveAndStopped(T, c)
        raise == TCapLimit_CommitLimit(T, c, client,
                     [Permitted |-> T[c].CapLimit.Permitted \cup ambient.Permitted])
        T1    == IF ambient.Permitted \ T[c].CapLimit.Permitted # {} THEN raise.T ELSE T
    IN  IF error # "Success" THEN Ret(error, T, << >>)
        ELSE IF ambient.Permitted \ AllCapabilities.Permitted # {}
             THEN Ret("InvalidValue", T, << >>)
        ELSE IF ambient.Permitted \ T[c].CapAllowed.Permitted # {} /\ ~IsSuperUser(client)
             THEN Ret("Permission", T, << >>)
        ELSE IF ambient.Permitted \ T[c].CapLimit.Permitted # {} /\ raise.error # "Success"
             THEN Ret(raise.error, raise.T, << >>)
        ELSE Ret("Success",
                 SanitizeCapabilities(
                     SetProp(Upd(T1, c, "CapAmbient", ambient), c, "CAPABILITIES_AMBIENT"),
                     c, client),
                 << >>)

\* TCapAmbient::Set(value)
TCapAmbient_Set(T, c, client, value) ==
    LET p == CapParse(value)
    IN  IF p.error # "Success" THEN Ret(p.error, T, << >>)
        ELSE TCapAmbient_CommitAmbient(T, c, client, p.caps)

\* TCapAmbient::SetIndexed(index, value)
TCapAmbient_SetIndexed(T, c, client, index, value) ==
    LET p == CapParse(index)
        b == StringToBool(value, FALSE)
        caps == IF b.value THEN T[c].CapAmbient.Permitted \cup p.caps.Permitted
                ELSE T[c].CapAmbient.Permitted \ p.caps.Permitted
    IN  IF p.error # "Success" THEN Ret(p.error, T, << >>)
        ELSE IF b.error # "Success" THEN Ret(b.error, T, << >>)
        ELSE TCapAmbient_CommitAmbient(T, c, client, [Permitted |-> caps])

-----------------------------------------------------------------------------
(* Property handlers: plain values changed only in a stopped container *)

\* the body shared by the handlers that store the string as it comes
SetStopped(T, c, field, prop, value) ==
    LET error == IsAliveAndStopped(T, c)
    IN  IF error # "Success" THEN Ret(error, T, << >>)
        ELSE Ret("Success", SetProp(Upd(T, c, field, value), c, prop), << >>)

TCwd_Set(T, c, client, cwd) == SetStopped(T, c, "Cwd", "CWD", cwd)
TCommand_Set(T, c, client, command) == SetStopped(T, c, "Command", "COMMAND", command)
THostname_Set(T, c, client, hostname) == SetStopped(T, c, "Hostname", "HOSTNAME", hostname)
TRoot_Set(T, c, client, root) == SetStopped(T, c, "Root", "ROOT", root)
TPortoNamespace_Set(T, c, client, value) ==
    SetStopped(T, c, "NsName", "PORTO_NAMESPACE", value)

\* TStdinPath::Set, TStdoutPath::Set, TStderrPath::Set: SetInside(path)
SetStreamPath(T, c, stream, prop, path) ==
    LET error == IsAliveAndStopped(T, c)
    IN  IF error = "Success"
        THEN Ret(error, SetProp([T EXCEPT ![c][stream].Path = path], c, prop), << >>)
        ELSE Ret(error, T, << >>)

TStdinPath_Set(T, c, client, path) == SetStreamPath(T, c, "Stdin", "STDIN", path)
TStdoutPath_Set(T, c, client, path) == SetStreamPath(T, c, "Stdout", "STDOUT", path)
TStderrPath_Set(T, c, client, path) == SetStreamPath(T, c, "Stderr", "STDERR", path)

\* TRootRo::Set and TIsolate::Set: the literal is compared in the handler
SetStoppedLiteralBool(T, c, field, prop, value) ==
    LET error == IsAliveAndStopped(T, c)
    IN  IF error # "Success" THEN Ret(error, T, << >>)
        ELSE IF value = <<"t", "r", "u", "e">> THEN Ret("Success", SetProp(Upd(T, c, field, TRUE), c, prop), << >>)
        ELSE IF value = <<"f", "a", "l", "s", "e">> THEN Ret("Success", SetProp(Upd(T, c, field, FALSE), c, prop), << >>)
        ELSE Ret("InvalidValue", T, << >>)

TRootRo_Set(T, c, client, ro) == SetStoppedLiteralBool(T, c, "RootRo", "ROOT_RDONLY", ro)
TIsolate_Set(T, c, client, isolate_needed) ==
    SetStoppedLiteralBool(T, c, "Isolate", "ISOLATE", isolate_needed)

\* TBindDns::Set(value)
TBindDns_Set(T, c, client, value) ==
    LET error == IsAliveAndStopped(T, c)
        b == StringToBool(value, T[c].BindDns)
    IN  IF error # "Success" THEN Ret(error, T, << >>)
        ELSE IF b.error # "Success" THEN Ret(b.error, Upd(T, c, "BindDns", b.value), << >>)
        ELSE Ret("Success", SetProp(Upd(T, c, "BindDns", b.value), c, "BIND_DNS"), << >>)

\* TUmask::Set(value)
TUmask_Set(T, c, client, value) ==
    LET error == IsAliveAndStopped(T, c)
        o == StringToOct(value, T[c].Umask)
    IN  IF error # "Success" THEN Ret(error, T, << >>)
        ELSE IF o.error # "Success" THEN Ret(o.error, Upd(T, c, "Umask", o.value), << >>)
        ELSE Ret("Success", SetProp(Upd(T, c, "Umask", o.value), c, "UMASK"), << >>)

\* TVirtMode::Set(virt_mode)
TVirtMode_Set(T, c, client, virt_mode) ==
    LET error == IsAliveAndStopped(T, c)
        done(mode) == Ret("Success",
                          SanitizeCapabilities(
                              SetProp(Upd(T, c, "VirtMode", mode), c, "VIRT_MODE"), c, client),
                          << >>)
    IN  IF error # "Success" THEN Ret(error, T, << >>)
        ELSE IF virt_mode = <<"a", "p", "p">> THEN done("VIRT_MODE_APP")
        ELSE IF virt_mode = <<"o", "s">> THEN done("VIRT_MODE_OS")
        ELSE Ret("InvalidValue", T, << >>)

\* TResolvConf::Set(conf_str)
TResolvConf_Set(T, c, client, conf_str) ==
    LET error == IsAliveAndStopped(T, c)
    IN  IF error # "Success" THEN Ret(error, T, << >>)
        ELSE Ret("Success",
                 SetProp(Upd(T, c, "ResolvConf", SplitEscapedTuple(conf_str, ";")),
                         c, "RESOLV_CONF"),
                 << >>)

-----------------------------------------------------------------------------
(* Property handlers: task credentials *)

\* TUser::Set(username)
TUser_Set(T, c, client, username) ==
    LET error  == IsAliveAndStopped(T, c)
        oldGid == T[c].TaskCred.Gid
        load   == CredLoad(username)
        byId   == UserId(username)
        numeric == load.error # "Success" /\ client.CanSetUidGid
        error1 == IF numeric THEN byId.error ELSE load.error
        cred1  == IF numeric THEN [Uid |-> byId.id, Gid |-> oldGid, Groups |-> {}]
                  ELSE load.cred
        newCred == IF IsMemberOf(cred1, oldGid) \/ IsMemberOf(client.Cred, oldGid)
                      \/ IsSuperUser(client)
                   THEN [cred1 EXCEPT !.Gid = oldGid] ELSE cred1
        control == CanControl(client, newCred)
        error2 == IF control # "Success" /\ client.CanSetUidGid
                     /\ IsChildOf(c, client.ClientContainer)
                  THEN "Success" ELSE control
    IN  IF error # "Success" THEN Ret(error, T, << >>)
        ELSE IF error1 # "Success" THEN Ret(error1, T, << >>)
        ELSE IF cred1.Uid = T[c].TaskCred.Uid THEN Ret("Success", T, << >>)
        ELSE IF error2 # "Success" THEN Ret(error2, T, << >>)
        ELSE Ret("Success", SetProp(Upd(T, c, "TaskCred", newCred), c, "USER"), << >>)

\* TGroup::Set(groupname)
TGroup_Set(T, c, client, groupname) ==
    LET error == IsAliveAndStopped(T, c)
        g == GroupId(groupname)
        member == IF ~IsMemberOf(T[c].TaskCred, g.id) /\ ~IsMemberOf(client.Cred, g.id)
                     /\ ~IsSuperUser(client)
                  THEN "Permission" ELSE "Success"
        error2 == IF member # "Success" /\ client.CanSetUidGid
                     /\ IsChildOf(c, client.ClientContainer)
                  THEN "Success" ELSE member
    IN  IF error # "Success" THEN Ret(error, T, << >>)
        ELSE IF g.error # "Success" THEN Ret(g.error, T, << >>)
        ELSE IF error2 # "Success" THEN Ret(error2, T, << >>)
        ELSE Ret("Success",
                 SetProp([T EXCEPT ![c].TaskCred.Gid = g.id], c, "GROUP"), << >>)

-----------------------------------------------------------------------------
(* Property handlers: environment *)

\* the position of the first "=" of an entry, 0 when it has none
EqualSign(s) ==
    LET hit == {k \in 1..Len(s) : s[k] = "="}
    IN  IF hit = {} THEN 0 ELSE CHOOSE k \in hit : \A m \in hit : k <= m

EnvName(s) == IF EqualSign(s) = 0 THEN s ELSE SubSeq(s, 1, EqualSign(s) - 1)

\* TEnv::Parse(cfg, overwrite = true) onto env, then TEnv::Format: the
\* variables in the order they were first set, the last value of each
RECURSIVE EnvParse(_, _, _)
EnvParse(env, cfg, k) ==
    IF k > Len(cfg) THEN [error |-> "Success", env |-> env]
    ELSE IF EqualSign(cfg[k]) <= 1 THEN [error |-> "InvalidValue", env |-> env]
    ELSE LET at == {i \in 1..Len(env) : EnvName(env[i]) = EnvName(cfg[k])}
         IN  EnvParse(IF at = {} THEN Append(env, cfg[k])
                      ELSE [env EXCEPT ![CHOOSE i \in at : TRUE] = cfg[k]],
                      cfg, k + 1)

\* TEnvProperty::Set(env_val)
TEnvProperty_Set(T, c, client, env_val) ==
    LET error == IsAliveAndStopped(T, c)
        envs  == SplitEscapedTuple(env_val, ";")
        env   == EnvParse(<< >>, envs, 1)
    IN  IF error # "Success" THEN Ret(error, T, << >>)
        ELSE IF env.error # "Success" THEN Ret(env.error, T, << >>)
        ELSE Ret("Success", SetProp(Upd(T, c, "EnvCfg", env.env), c, "ENV"), << >>)

\* TEnvProperty::SetIndexed(index, env_val)
TEnvProperty_SetIndexed(T, c, client, index, env_val) ==
    LET error == IsAliveAndStopped(T, c)
        env0  == EnvParse(<< >>, T[c].EnvCfg, 1)
        env   == EnvParse(env0.env, <<index \o <<"=">> \o env_val>>, 1)
    IN  IF error # "Success" THEN Ret(error, T, << >>)
        ELSE IF env0.error # "Success" THEN Ret(env0.error, T, << >>)
        ELSE IF env.error # "Success" THEN Ret(env.error, T, << >>)
        ELSE Ret("Success", SetProp(Upd(T, c, "EnvCfg", env.env), c, "ENV"), << >>)

-----------------------------------------------------------------------------
(* Property handlers: mounts and network *)

\* the loop of TBind::Set over the parsed tuples
RECURSIVE BindLoop(_, _, _)
BindLoop(binds, k, bindMounts) ==
    IF k > Len(binds) THEN [error |-> "Success", bindMounts |-> bindMounts]
    ELSE LET bind == binds[k]
         IN  IF Len(bind) # 2 /\ Len(bind) # 3
             THEN [error |-> "InvalidValue", bindMounts |-> bindMounts]
             ELSE IF Len(bind) = 3 /\ bind[3] # <<"r", "o">> /\ bind[3] # <<"r", "w">>
             THEN [error |-> "InvalidValue", bindMounts |-> bindMounts]
             ELSE BindLoop(binds, k + 1,
                      Append(bindMounts,
                             [Source |-> bind[1], Dest |-> bind[2],
                              ReadOnly |-> Len(bind) = 3 /\ bind[3] = <<"r", "o">>,
                              ReadWrite |-> Len(bind) = 3 /\ bind[3] = <<"r", "w">>]))

\* TBind::Set(bind_str)
TBind_Set(T, c, client, bind_str) ==
    LET error == IsAliveAndStopped(T, c)
        binds == SplitEscapedString(bind_str, " ", ";")
        r     == BindLoop(binds, 1, << >>)
    IN  IF error # "Success" THEN Ret(error, T, << >>)
        ELSE IF r.error # "Success" THEN Ret(r.error, T, << >>)
        ELSE Ret("Success", SetProp(Upd(T, c, "BindMounts", r.bindMounts), c, "BIND"), << >>)

\* TNetCfg::ParseNet(desc): [error, Inherited]
NetKinds == {<<"n", "o", "n", "e">>, <<"i", "n", "h", "e", "r", "i", "t", "e", "d">>, <<"s", "t", "e", "a", "l">>, <<"c", "o", "n", "t", "a", "i", "n", "e", "r">>, <<"m", "a", "c", "v", "l", "a", "n">>, <<"i", "p", "v", "l", "a", "n">>,
             <<"v", "e", "t", "h">>, <<"L", "3">>, <<"N", "A", "T">>, <<"M", "T", "U">>, <<"a", "u", "t", "o", "c", "o", "n", "f">>, <<"n", "e", "t", "n", "s">>}

ParseNet(desc) ==
    IF Len(desc) = 0 THEN [error |-> "InvalidValue", Inherited |-> FALSE]
    ELSE IF \E k \in 1..Len(desc) : desc[k][1] \notin NetKinds
         THEN [error |-> "InvalidValue", Inherited |-> FALSE]
    ELSE IF \E k \in 1..Len(desc) :
                desc[k][1] \in {<<"n", "o", "n", "e">>, <<"i", "n", "h", "e", "r", "i", "t", "e", "d">>} /\ Len(desc[k]) # 1
         THEN [error |-> "InvalidValue", Inherited |-> FALSE]
    ELSE [error |-> "Success",
          Inherited |-> \A k \in 1..Len(desc) : desc[k][1] = <<"i", "n", "h", "e", "r", "i", "t", "e", "d">>]

\* TNetCfg::ParseIp(ipaddrs) and TNetCfg::ParseGw(gws): pairs <interface> <address>
ParsePairs(tuples) ==
    IF \E k \in 1..Len(tuples) : Len(tuples[k]) # 2 THEN "InvalidValue" ELSE "Success"

\* TNet::Set(net_desc)
TNet_Set(T, c, client, net_desc) ==
    LET error == IsAliveAndStopped(T, c)
        new_net_desc == SplitEscapedString(net_desc, " ", ";")
        cfg  == ParseNet(new_net_desc)
        want == WantControllers(T, c, {CGROUP_NETCLS})
    IN  IF error # "Success" THEN Ret(error, T, << >>)
        ELSE IF cfg.error # "Success" THEN Ret(cfg.error, T, << >>)
        ELSE IF ~cfg.Inherited /\ want.error # "Success" THEN want
        ELSE IF ~cfg.Inherited
             THEN Ret("Success",
                      SetProp(Upd(want.T, c, "NetProp", new_net_desc), c, "NET"), want.wc)
        ELSE Ret("Success", SetProp(Upd(T, c, "NetProp", new_net_desc), c, "NET"), << >>)

\* TIp::Set(ipaddr)
TIp_Set(T, c, client, ipaddr) ==
    LET error == IsAliveAndStopped(T, c)
        ipaddrs == SplitEscapedString(ipaddr, " ", ";")
        parse == ParsePairs(ipaddrs)
    IN  IF error # "Success" THEN Ret(error, T, << >>)
        ELSE IF parse # "Success" THEN Ret(parse, T, << >>)
        ELSE Ret("Success", SetProp(Upd(T, c, "IpList", ipaddrs), c, "IP"), << >>)

\* TDefaultGw::Set(gw)
TDefaultGw_Set(T, c, client, gw) ==
    LET error == IsAliveAndStopped(T, c)
        gws   == SplitEscapedString(gw, " ", ";")
        parse == ParsePairs(gws)
    IN  IF error # "Success" THEN Ret(error, T, << >>)
        ELSE IF parse # "Success" THEN Ret(parse, T, << >>)
        ELSE Ret("Success", SetProp(Upd(T, c, "DefaultGw", gws), c, "DEFAULT_GW"), << >>)

\* TDevices::Set(dev)
TDevices_Set(T, c, client, dev) ==
    LET want == WantControllers(T, c, {CGROUP_DEVICES})
    IN  IF want.error # "Success" THEN want
        ELSE Ret("Success",
                 SetProp(Upd(want.T, c, "Devices", SplitEscapedString(dev, " ", ";")),
                         c, "DEVICES"),
                 want.wc)

-----------------------------------------------------------------------------
(* Property handlers: limits that may change while the container lives *)

UlimitResources == {<<"a", "s">>, <<"c", "o", "r", "e">>, <<"d", "a", "t", "a">>, <<"l", "o", "c", "k", "s">>, <<"m", "e", "m", "l", "o", "c", "k">>, <<"n", "o", "f", "i", "l", "e">>,
                    <<"n", "p", "r", "o", "c">>, <<"s", "t", "a", "c", "k">>}

\* one limit of ParseUlimit: digits or the word unlimited
IsUlimitValue(s) ==
    s = <<"u", "n", "l", "i", "m", "i", "t", "e", "d">> \/ (Len(s) > 0 /\ \A k \in 1..Len(s) : s[k] \in Digits)

\* ParseUlimit(name, value, res, lim): <soft> [hard] for a known resource
ParseUlimit(name, value) ==
    LET lims == SplitEscapedTuple(value, " ")
    IN  IF name \notin UlimitResources THEN "InvalidValue"
        ELSE IF Len(lims) \notin {1, 2} THEN "InvalidValue"
        ELSE IF \E k \in 1..Len(lims) : ~IsUlimitValue(lims[k]) THEN "InvalidValue"
        ELSE "Success"

\* TUlimit::Set(value)
TUlimit_Set(T, c, client, value) ==
    LET error == IsAlive(T, c)
        m     == StringToStringMap(value)
    IN  IF error # "Success" THEN Ret(error, T, << >>)
        ELSE IF m.error # "Success" THEN Ret(m.error, T, << >>)
        ELSE IF \E k \in DOMAIN m.map : ParseUlimit(k, m.map[k]) # "Success"
             THEN Ret("InvalidValue", T, << >>)
        ELSE Ret("Success", SetProp(Upd(T, c, "Ulimit", m.map), c, "ULIMIT"), << >>)

\* TUlimit::SetIndexed(index, value)
TUlimit_SetIndexed(T, c, client, index, value) ==
    LET old == T[c].Ulimit
    IN  IF value = << >>
        THEN Ret("Success",
                 SetProp(Upd(T, c, "Ulimit", [x \in DOMAIN old \ {index} |-> old[x]]),
                         c, "ULIMIT"), << >>)
        ELSE IF ParseUlimit(index, value) # "Success"
             THEN Ret(ParseUlimit(index, value), T, << >>)
        ELSE Ret("Success",
                 SetProp(Upd(T, c, "Ulimit",
                             [x \in DOMAIN old \cup {index} |->
                                 IF x = index THEN value ELSE old[x]]),
                         c, "ULIMIT"), << >>)

rt_nice      == 0 - 20
high_nice    == 0 - 10
rt_priority  == 10
enable_smart == TRUE

\* CpuSubsystem.HasSmart: what the host supports, kept on the root container
HasSmart(T) == T[ROOT_CONTAINER].HasSmart

\* TCpuPolicy::Set(policy), the fields of an earlier policy left in place
TCpuPolicy_Set_NoReset(T, c, client, policy) ==
    LET error == IsAlive(T, c)
        rr    == (~HasSmart(T) \/ ~enable_smart) /\ rt_priority # 0
        old   == <<T[c].SchedPolicy, T[c].SchedPrio, T[c].SchedNice>>
        sched == IF policy = <<"r", "t">>
                 THEN IF rr THEN <<"SCHED_RR", rt_priority, rt_nice>>
                      ELSE <<old[1], old[2], rt_nice>>
                 ELSE IF policy = <<"h", "i", "g", "h">> THEN <<old[1], old[2], high_nice>>
                 ELSE IF policy = <<"b", "a", "t", "c", "h">> THEN <<"SCHED_BATCH", old[2], old[3]>>
                 ELSE IF policy = <<"i", "d", "l", "e">> THEN <<"SCHED_IDLE", old[2], old[3]>>
                 ELSE IF policy = <<"i", "s", "o">> THEN <<"4", old[2], high_nice>>
                 ELSE <<"SCHED_OTHER", 0, 0>>
    IN  IF error # "Success" THEN Ret(error, T, << >>)
        ELSE IF policy \notin {<<"r", "t">>, <<"h", "i", "g", "h">>, <<"n", "o", "r", "m", "a", "l">>, <<"b", "a", "t", "c", "h">>, <<"i", "d", "l", "e">>, <<"i", "s", "o">>}
             THEN Ret("InvalidValue", T, << >>)
        ELSE IF T[c].CpuPolicy # policy
             THEN Ret("Success",
                      SetProp([T EXCEPT ![c].CpuPolicy = policy,
                                        ![c].SchedPolicy = sched[1],
                                        ![c].SchedPrio = sched[2],
                                        ![c].SchedNice = sched[3]], c, "CPU_POLICY"),
                      << >>)
        ELSE Ret("Success", T, << >>)

\* TCpuPolicy::Set(policy)
TCpuPolicy_Set(T, c, client, policy) ==
    LET error == IsAlive(T, c)
        rr    == (~HasSmart(T) \/ ~enable_smart) /\ rt_priority # 0
        sched == IF policy = <<"r", "t">>
                 THEN IF rr THEN <<"SCHED_RR", rt_priority, rt_nice>>
                      ELSE <<"SCHED_OTHER", 0, rt_nice>>
                 ELSE IF policy = <<"h", "i", "g", "h">> THEN <<"SCHED_OTHER", 0, high_nice>>
                 ELSE IF policy = <<"b", "a", "t", "c", "h">> THEN <<"SCHED_BATCH", 0, 0>>
                 ELSE IF policy = <<"i", "d", "l", "e">> THEN <<"SCHED_IDLE", 0, 0>>
                 ELSE IF policy = <<"i", "s", "o">> THEN <<"4", 0, high_nice>>
                 ELSE <<"SCHED_OTHER", 0, 0>>
    IN  IF error # "Success" THEN Ret(error, T, << >>)
        ELSE IF policy \notin {<<"r", "t">>, <<"h", "i", "g", "h">>, <<"n", "o", "r", "m", "a", "l">>, <<"b", "a", "t", "c", "h">>, <<"i", "d", "l", "e">>, <<"i", "s", "o">>}
             THEN Ret("InvalidValue", T, << >>)
        ELSE IF T[c].CpuPolicy # policy
             THEN Ret("Success",
                      SetProp([T EXCEPT ![c].CpuPolicy = policy,
                                        ![c].SchedPolicy = sched[1],
                                        ![c].SchedPrio = sched[2],
                                        ![c].SchedNice = sched[3]], c, "CPU_POLICY"),
                      << >>)
        ELSE Ret("Success", T, << >>)

\* TIoPolicy::Set(policy)
TIoPolicy_Set(T, c, client, policy) ==
    LET error == IsAlive(T, c)
        want  == WantControllers(T, c, {CGROUP_BLKIO})
    IN  IF error # "Success" THEN Ret(error, T, << >>)
        ELSE IF want.error # "Success" THEN want
        ELSE IF policy # <<"n", "o", "r", "m", "a", "l">> /\ policy # <<"b", "a", "t", "c", "h">>
             THEN Ret("InvalidValue", want.T, want.wc)
        ELSE IF T[c].IoPolicy # policy
             THEN Ret("Success",
                      SetProp(Upd(want.T, c, "IoPolicy", policy), c, "IO_POLICY"), want.wc)
        ELSE Ret("Success", want.T, want.wc)

\* RootContainer->GetTotalMemGuarantee(): the guarantees staged over the tree
RECURSIVE SumGuarantee(_, _)
SumGuarantee(T, names) ==
    IF names = {} THEN 0
    ELSE LET n == CHOOSE n \in names : TRUE
         IN  T[n].NewMemGuarantee + SumGuarantee(T, names \ {n})

GetTotalMemGuarantee(T) == SumGuarantee(T, DOMAIN T)

\* TMemoryGuarantee::Set(mem_guarantee), the staged value left in place when
\* the request is refused
TMemoryGuarantee_Set_NoRollback(T, c, client, mem_guarantee, answer) ==
    LET error == IsAlive(T, c)
        want  == WantControllers(T, c, {CGROUP_MEMORY})
        sz    == StringToSizeCast(mem_guarantee, answer.cast)
        T1    == Upd(want.T, c, "NewMemGuarantee", sz.size)
        usage == GetTotalMemGuarantee(T1)
    IN  IF error # "Success" THEN Ret(error, T, << >>)
        ELSE IF want.error # "Success" THEN want
        ELSE IF sz.error # "Success" THEN Ret(sz.error, want.T, want.wc)
        ELSE IF U64Greater(usage + memory_guarantee_reserve, TotalMemory)
             THEN Ret("ResourceNotAvailable", T1, want.wc)
        ELSE IF T[c].MemGuarantee # sz.size
             THEN Ret("Success",
                      SetProp(Upd(T1, c, "MemGuarantee", sz.size), c, "MEM_GUARANTEE"),
                      want.wc)
        ELSE Ret("Success", T1, want.wc)

\* TMemoryGuarantee::Set(mem_guarantee)
TMemoryGuarantee_Set(T, c, client, mem_guarantee, answer) ==
    LET error == IsAlive(T, c)
        want  == WantControllers(T, c, {CGROUP_MEMORY})
        sz    == StringToSizeCast(mem_guarantee, answer.cast)
        T1    == Upd(want.T, c, "NewMemGuarantee", sz.size)
        usage == GetTotalMemGuarantee(T1)
    IN  IF error # "Success" THEN Ret(error, T, << >>)
        ELSE IF want.error # "Success" THEN want
        ELSE IF sz.error # "Success" THEN Ret(sz.error, want.T, want.wc)
        ELSE IF U64Greater(usage + memory_guarantee_reserve, TotalMemory)
             THEN Ret("ResourceNotAvailable",
                      Upd(T1, c, "NewMemGuarantee", T[c].MemGuarantee), want.wc)
        ELSE IF T[c].MemGuarantee # sz.size
             THEN Ret("Success",
                      SetProp(Upd(T1, c, "MemGuarantee", sz.size), c, "MEM_GUARANTEE"),
                      want.wc)
        ELSE Ret("Success", T1, want.wc)

\* TMemoryGuarantee::Set up to the write of the staging slot: the guards,
\* the parse, and NewMemGuarantee = new_val; staged tells that it was written
TMemoryGuarantee_Stage(T, c, mem_guarantee, answer) ==
    LET error == IsAlive(T, c)
        want  == WantControllers(T, c, {CGROUP_MEMORY})
        sz    == StringToSizeCast(mem_guarantee, answer.cast)
    IN  IF error # "Success" THEN [error |-> error, T |-> T, new_val |-> 0, staged |-> FALSE]
        ELSE IF want.error # "Success"
             THEN [error |-> want.error, T |-> want.T, new_val |-> 0, staged |-> FALSE]
        ELSE IF sz.error # "Success"
             THEN [error |-> sz.error, T |-> want.T, new_val |-> 0, staged |-> FALSE]
        ELSE [error |-> "Success", T |-> Upd(want.T, c, "NewMemGuarantee", sz.size),
              new_val |-> sz.size, staged |-> TRUE]

\* TMemoryGuarantee::Set from the comparison of the usage it read: the
\* staging slot rolled back, or the guarantee committed
TMemoryGuarantee_Commit(T, c, new_val, usage) ==
    IF U64Greater(usage + memory_guarantee_reserve, TotalMemory)
    THEN Ret("ResourceNotAvailable", Upd(T, c, "NewMemGuarantee", T[c].MemGuarantee), << >>)
    ELSE IF T[c].MemGuarantee # new_val
         THEN Ret("Success", SetProp(Upd(T, c, "MemGuarantee", new_val), c, "MEM_GUARANTEE"),
                  << >>)
    ELSE Ret("Success", T, << >>)

\* TMemoryLimit::Set without the comparison with min_memory_limit
SetMemorySize_NoMinimum(T, c, field, prop, limit, answer) ==
    LET error == IsAlive(T, c)
        want  == WantControllers(T, c, {CGROUP_MEMORY})
        sz    == StringToSizeCast(limit, answer.cast)
    IN  IF error # "Success" THEN Ret(error, T, << >>)
        ELSE IF want.error # "Success" THEN want
        ELSE IF sz.error # "Success" THEN Ret(sz.error, want.T, want.wc)
        ELSE IF T[c][field] # sz.size
             THEN Ret("Success", SetProp(Upd(want.T, c, field, sz.size), c, prop), want.wc)
        ELSE Ret("Success", want.T, want.wc)

\* the body TMemoryLimit::Set, TAnonLimit::Set and TDirtyLimit::Set share
SetMemorySize(T, c, field, prop, limit, answer) ==
    LET error == IsAlive(T, c)
        want  == WantControllers(T, c, {CGROUP_MEMORY})
        sz    == StringToSizeCast(limit, answer.cast)
    IN  IF error # "Success" THEN Ret(error, T, << >>)
        ELSE IF want.error # "Success" THEN want
        ELSE IF sz.error # "Success" THEN Ret(sz.error, want.T, want.wc)
        ELSE IF sz.size # 0 /\ U64Greater(min_memory_limit, sz.size)
             THEN Ret("InvalidValue", want.T, want.wc)
        ELSE IF T[c][field] # sz.size
             THEN Ret("Success", SetProp(Upd(want.T, c, field, sz.size), c, prop), want.wc)
        ELSE Ret("Success", want.T, want.wc)

TMemoryLimit_Set(T, c, client, limit, answer) ==
    SetMemorySize(T, c, "MemLimit", "MEM_LIMIT", limit, answer)
TAnonLimit_Set(T, c, client, limit, answer) ==
    SetMemorySize(T, c, "AnonMemLimit", "ANON_LIMIT", limit, answer)
TDirtyLimit_Set(T, c, client, limit, answer) ==
    SetMemorySize(T, c, "DirtyMemLimit", "DIRTY_LIMIT", limit, answer)

\* THugetlbLimit::Set(value); huge is what GetHugeUsage answers: [error, usage]
THugetlbLimit_Set(T, c, client, value, huge) ==
    LET error == IsAlive(T, c)
        want  == WantControllers(T, c, {CGROUP_HUGETLB})
        sz    == StringToSize(value)
    IN  IF error # "Success" THEN Ret(error, T, << >>)
        ELSE IF want.error # "Success" THEN want
        ELSE IF value = << >>
             THEN Ret("Success",
                      ClearProp(Upd(want.T, c, "HugetlbLimit", 0 - 1), c, "HUGETLB_LIMIT"),
                      want.wc)
        ELSE IF sz.error # "Success" THEN Ret(sz.error, want.T, want.wc)
        ELSE IF huge.error = "Success" /\ sz.size < huge.usage
             THEN Ret("InvalidValue", want.T, want.wc)
        ELSE Ret("Success",
                 SetProp(Upd(want.T, c, "HugetlbLimit", sz.size), c, "HUGETLB_LIMIT"),
                 want.wc)

\* TRechargeOnPgfault::Set(recharge)
TRechargeOnPgfault_Set(T, c, client, recharge) ==
    LET error == IsAlive(T, c)
        want  == WantControllers(T, c, {CGROUP_MEMORY})
        new_val == recharge = <<"t", "r", "u", "e">>
    IN  IF error # "Success" THEN Ret(error, T, << >>)
        ELSE IF want.error # "Success" THEN want
        ELSE IF recharge # <<"t", "r", "u", "e">> /\ recharge # <<"f", "a", "l", "s", "e">>
             THEN Ret("InvalidValue", want.T, want.wc)
        ELSE IF T[c].RechargeOnPgfault # new_val
             THEN Ret("Success",
                      SetProp(Upd(want.T, c, "RechargeOnPgfault", new_val),
                              c, "RECHARGE_ON_PGFAULT"), want.wc)
        ELSE Ret("Success", want.T, want.wc)

-----------------------------------------------------------------------------
(* Property handlers: cpu, io and network shares *)

\* TCpuLimit::Set without the comparison with the parent
TCpuLimit_Set_NoParentCheck(T, c, client, limit) ==
    LET error == IsAlive(T, c)
        want  == WantControllers(T, c, {CGROUP_CPU})
        v     == StringToCpuValue(limit)
    IN  IF error # "Success" THEN Ret(error, T, << >>)
        ELSE IF want.error # "Success" THEN want
        ELSE IF v.error # "Success" THEN Ret(v.error, want.T, want.wc)
        ELSE IF ~CpuEqual(T[c].CpuLimit, v.value)
             THEN Ret("Success",
                      SetProp(Upd(want.T, c, "CpuLimit", v.value), c, "CPU_LIMIT"), want.wc)
        ELSE Ret("Success", want.T, want.wc)

\* TCpuLimit::Set(limit)
TCpuLimit_Set(T, c, client, limit) ==
    LET error == IsAlive(T, c)
        want  == WantControllers(T, c, {CGROUP_CPU})
        v     == StringToCpuValue(limit)
    IN  IF error # "Success" THEN Ret(error, T, << >>)
        ELSE IF want.error # "Success" THEN want
        ELSE IF v.error # "Success" THEN Ret(v.error, want.T, want.wc)
        ELSE IF CpuGreater(v.value, T[GetParent(c)].CpuLimit) /\ ~IsSuperUser(client)
             THEN Ret("InvalidValue", want.T, want.wc)
        ELSE IF ~CpuEqual(T[c].CpuLimit, v.value)
             THEN Ret("Success",
                      SetProp(Upd(want.T, c, "CpuLimit", v.value), c, "CPU_LIMIT"), want.wc)
        ELSE Ret("Success", want.T, want.wc)

\* TCpuGuarantee::Set(guarantee)
TCpuGuarantee_Set(T, c, client, guarantee) ==
    LET error == IsAlive(T, c)
        want  == WantControllers(T, c, {CGROUP_CPU})
        v     == StringToCpuValue(guarantee)
    IN  IF error # "Success" THEN Ret(error, T, << >>)
        ELSE IF want.error # "Success" THEN want
        ELSE IF v.error # "Success" THEN Ret(v.error, want.T, want.wc)
        ELSE IF ~CpuEqual(T[c].CpuGuarantee, v.value)
             THEN Ret("Success",
                      SetProp(Upd(want.T, c, "CpuGuarantee", v.value), c, "CPU_GUARANTEE"),
                      want.wc)
        ELSE Ret("Success", want.T, want.wc)

\* TCpuSet::Set(value)
TCpuSet_Set(T, c, client, value) ==
    LET error == IsAlive(T, c)
        want  == WantControllers(T, c, {CGROUP_CPUSET})
    IN  IF error # "Success" THEN Ret(error, T, << >>)
        ELSE IF want.error # "Success" THEN want
        ELSE IF T[c].CpuSet # value
             THEN Ret("Success", SetProp(Upd(want.T, c, "CpuSet", value), c, "CPU_SET"), want.wc)
        ELSE Ret("Success", want.T, want.wc)

\* TIoLimit::SetMapMap(limit, map): field holds limit, prop is Prop
TIoLimit_SetMapMap(T, c, field, prop, map) ==
    LET error == IsAlive(T, c)
        fs    == <<"f", "s">> \in DOMAIN map
        want1 == IF fs THEN WantControllers(T, c, {CGROUP_MEMORY}) ELSE Ret("Success", T, << >>)
        other == DOMAIN map \ {<<"f", "s">>} # {}
        want2 == IF other THEN WantControllers(want1.T, c, {CGROUP_BLKIO})
                 ELSE Ret("Success", want1.T, << >>)
    IN  IF error # "Success" THEN Ret(error, T, << >>)
        ELSE IF want1.error # "Success" THEN want1
        ELSE IF want2.error # "Success" THEN Ret(want2.error, want2.T, want1.wc \o want2.wc)
        ELSE Ret("Success", SetProp(Upd(want2.T, c, field, map), c, prop),
                 want1.wc \o want2.wc)

\* TIoLimit::SetMap(limit, value)
TIoLimit_SetMap(T, c, field, prop, value) ==
    LET single == Len(value) > 0 /\ \A k \in 1..Len(value) : value[k] # ":"
        sz     == StringToSize(value)
        m      == StringToUintMap(value)
    IN  IF single
        THEN IF sz.error # "Success" THEN Ret(sz.error, T, << >>)
             ELSE TIoLimit_SetMapMap(T, c, field, prop, MapPut(EmptyMap, <<"f", "s">>, sz.size))
        ELSE IF m.error # "Success" THEN Ret(m.error, T, << >>)
             ELSE TIoLimit_SetMapMap(T, c, field, prop, m.map)

\* TIoLimit::SetMapIndexed(limit, index, value)
TIoLimit_SetMapIndexed(T, c, field, prop, index, value) ==
    LET sz == StringToSize(value)
    IN  IF sz.error # "Success" THEN Ret(sz.error, T, << >>)
        ELSE TIoLimit_SetMapMap(T, c, field, prop, MapPut(T[c][field], index, sz.size))

TIoBpsLimit_Set(T, c, client, value) == TIoLimit_SetMap(T, c, "IoBpsLimit", "IO_LIMIT", value)
TIoBpsLimit_SetIndexed(T, c, client, index, value) ==
    TIoLimit_SetMapIndexed(T, c, "IoBpsLimit", "IO_LIMIT", index, value)
TIoOpsLimit_Set(T, c, client, value) ==
    TIoLimit_SetMap(T, c, "IoOpsLimit", "IO_OPS_LIMIT", value)
TIoOpsLimit_SetIndexed(T, c, client, index, value) ==
    TIoLimit_SetMapIndexed(T, c, "IoOpsLimit", "IO_OPS_LIMIT", index, value)

\* TNetPriority::Set without the loop that looks for a value above 7
SetNetMap_NoCap(T, c, field, prop, value, max) ==
    LET error == IsAlive(T, c)
        want  == WantControllers(T, c, {CGROUP_NETCLS})
        m     == StringToUintMap(value)
    IN  IF error # "Success" THEN Ret(error, T, << >>)
        ELSE IF want.error # "Success" THEN want
        ELSE IF m.error # "Success" THEN Ret(m.error, want.T, want.wc)
        ELSE IF T[c][field] # m.map
             THEN Ret("Success", SetProp(Upd(want.T, c, field, m.map), c, prop), want.wc)
        ELSE Ret("Success", want.T, want.wc)

\* TNetGuarantee::Set, TNetLimit::Set and, with max = 7, TNetPriority::Set;
\* max < 0 stands for no cap
SetNetMap(T, c, field, prop, value, max) ==
    LET error == IsAlive(T, c)
        want  == WantControllers(T, c, {CGROUP_NETCLS})
        m     == StringToUintMap(value)
    IN  IF error # "Success" THEN Ret(error, T, << >>)
        ELSE IF want.error # "Success" THEN want
        ELSE IF m.error # "Success" THEN Ret(m.error, want.T, want.wc)
        ELSE IF max >= 0 /\ \E k \in DOMAIN m.map : U64Greater(m.map[k], max)
             THEN Ret("InvalidValue", want.T, want.wc)
        ELSE IF T[c][field] # m.map
             THEN Ret("Success", SetProp(Upd(want.T, c, field, m.map), c, prop), want.wc)
        ELSE Ret("Success", want.T, want.wc)

\* TNetGuarantee::SetIndexed, TNetLimit::SetIndexed, TNetPriority::SetIndexed:
\* the comparison through operator[] inserts the index it misses
SetNetMapIndexed(T, c, field, prop, index, value, max) ==
    LET error == IsAlive(T, c)
        sz    == StringToSize(value)
        T1    == Upd(T, c, field, MapPut(T[c][field], index, sz.size))
    IN  IF error # "Success" THEN Ret(error, T, << >>)
        ELSE IF sz.error # "Success" THEN Ret("InvalidValue", T, << >>)
        ELSE IF max >= 0 /\ U64Greater(sz.size, max) THEN Ret("InvalidValue", T, << >>)
        ELSE IF MapAt(T[c][field], index) # sz.size
             THEN Ret("Success", SetProp(T1, c, prop), << >>)
        ELSE Ret("Success", T1, << >>)

TNetGuarantee_Set(T, c, client, guarantee) ==
    SetNetMap(T, c, "NetGuarantee", "NET_GUARANTEE", guarantee, 0 - 1)
TNetGuarantee_SetIndexed(T, c, client, index, guarantee) ==
    SetNetMapIndexed(T, c, "NetGuarantee", "NET_GUARANTEE", index, guarantee, 0 - 1)
TNetLimit_Set(T, c, client, limit) ==
    SetNetMap(T, c, "NetLimit", "NET_LIMIT", limit, 0 - 1)
TNetLimit_SetIndexed(T, c, client, index, limit) ==
    SetNetMapIndexed(T, c, "NetLimit", "NET_LIMIT", index, limit, 0 - 1)
TNetPriority_Set(T, c, client, prio) ==
    SetNetMap(T, c, "NetPriority", "NET_PRIO", prio, 7)
TNetPriority_SetIndexed(T, c, client, index, prio) ==
    SetNetMapIndexed(T, c, "NetPriority", "NET_PRIO", index, prio, 7)

\* TThreadLimit::Set(value)
TThreadLimit_Set(T, c, client, value) ==
    LET sz   == StringToSize(value)
        want == WantControllers(T, c, {CGROUP_PIDS})
    IN  IF sz.error # "Success" THEN Ret(sz.error, T, << >>)
        ELSE IF want.error # "Success" THEN want
        ELSE Ret("Success",
                 SetProp(Upd(want.T, c, "ThreadLimit", sz.size), c, "THREAD_LIMIT"), want.wc)

\* TStdoutLimit::Set(value), the limit of stderr left alone
TStdoutLimit_Set_StdoutOnly(T, c, client, value) ==
    LET sz == StringToSize(value)
    IN  IF sz.error # "Success" THEN Ret(sz.error, T, << >>)
        ELSE IF sz.size > stdout_limit_max /\ ~IsSuperUser(client)
             THEN Ret("Permission", T, << >>)
        ELSE Ret("Success",
                 SetProp([T EXCEPT ![c].Stdout.Limit = sz.size], c, "STDOUT_LIMIT"),
                 << >>)

\* TStdoutLimit::Set with the rights of the client looked at before the value
TStdoutLimit_Set_PermissionFirst(T, c, client, value) ==
    LET sz == StringToSize(value)
    IN  IF ~IsSuperUser(client) /\ (sz.error # "Success" \/ sz.size > stdout_limit_max)
        THEN Ret("Permission", T, << >>)
        ELSE IF sz.error # "Success" THEN Ret(sz.error, T, << >>)
        ELSE Ret("Success",
                 SetProp([T EXCEPT ![c].Stdout.Limit = sz.size,
                                   ![c].Stderr.Limit = sz.size], c, "STDOUT_LIMIT"),
                 << >>)

\* TStdoutLimit::Set(value)
TStdoutLimit_Set(T, c, client, value) ==
    LET sz == StringToSize(value)
    IN  IF sz.error # "Success" THEN Ret(sz.error, T, << >>)
        ELSE IF sz.size > stdout_limit_max /\ ~IsSuperUser(client)
             THEN Ret("Permission", T, << >>)
        ELSE Ret("Success",
                 SetProp([T EXCEPT ![c].Stdout.Limit = sz.size,
                                   ![c].Stderr.Limit = sz.size], c, "STDOUT_LIMIT"),
                 << >>)

-----------------------------------------------------------------------------
(* Property handlers: lifecycle policy *)

\* TRespawn::Set and TWeak::Set: the literal is compared in the handler
SetAliveLiteralBool(T, c, field, prop, value) ==
    LET error == IsAlive(T, c)
    IN  IF error # "Success" THEN Ret(error, T, << >>)
        ELSE IF value = <<"t", "r", "u", "e">> THEN Ret("Success", SetProp(Upd(T, c, field, TRUE), c, prop), << >>)
        ELSE IF value = <<"f", "a", "l", "s", "e">> THEN Ret("Success", SetProp(Upd(T, c, field, FALSE), c, prop), << >>)
        ELSE Ret("InvalidValue", T, << >>)

TRespawn_Set(T, c, client, respawn) == SetAliveLiteralBool(T, c, "ToRespawn", "RESPAWN", respawn)
TWeak_Set(T, c, client, weak) == SetAliveLiteralBool(T, c, "IsWeak", "WEAK", weak)

\* TMaxRespawns::Set(max)
TMaxRespawns_Set(T, c, client, max) ==
    LET error == IsAlive(T, c)
        v == StringToInt(max, 0)
    IN  IF error # "Success" THEN Ret(error, T, << >>)
        ELSE IF v.error # "Success" THEN Ret("InvalidValue", T, << >>)
        ELSE Ret("Success", SetProp(Upd(T, c, "MaxRespawns", v.value), c, "MAX_RESPAWNS"), << >>)

\* TPrivate::Set(value)
TPrivate_Set(T, c, client, value) ==
    LET error == IsAlive(T, c)
    IN  IF error # "Success" THEN Ret(error, T, << >>)
        ELSE IF Len(value) > private_max THEN Ret("InvalidValue", T, << >>)
        ELSE Ret("Success", SetProp(Upd(T, c, "Private", value), c, "PRIVATE"), << >>)

\* TAgingTime::Set(time)
TAgingTime_Set(T, c, client, time) ==
    LET error == IsAlive(T, c)
        v == StringToUint64(time, 0)
    IN  IF error # "Success" THEN Ret(error, T, << >>)
        ELSE IF v.error # "Success" THEN Ret(v.error, T, << >>)
        ELSE Ret("Success",
                 SetProp(Upd(T, c, "AgingTime", v.value * 1000), c, "AGING_TIME"), << >>)

\* EAccessLevel, by rank
AccessRank(level) ==
    CASE level = "None" -> 0 [] level = "ReadOnly" -> 1 [] level = "ChildOnly" -> 2
      [] level = "Normal" -> 3 [] OTHER -> 4

\* TEnablePorto::Set without the walk up the parents
TEnablePorto_Set_NoAncestors(T, c, client, value) ==
    LET level == IF value = <<"f", "a", "l", "s", "e">> THEN "None"
                 ELSE IF value = <<"r", "e", "a", "d", "-", "o", "n", "l", "y">> THEN "ReadOnly"
                 ELSE IF value = <<"c", "h", "i", "l", "d", "-", "o", "n", "l", "y">> THEN "ChildOnly"
                 ELSE "Normal"
    IN  IF value \notin {<<"f", "a", "l", "s", "e">>, <<"r", "e", "a", "d", "-", "o", "n", "l", "y">>, <<"c", "h", "i", "l", "d", "-", "o", "n", "l", "y">>, <<"t", "r", "u", "e">>}
        THEN Ret("InvalidValue", T, << >>)
        ELSE Ret("Success",
                 SetProp(Upd(T, c, "AccessLevel", level), c, "ENABLE_PORTO"), << >>)

\* TEnablePorto::Set(value)
TEnablePorto_Set(T, c, client, value) ==
    LET level == IF value = <<"f", "a", "l", "s", "e">> THEN "None"
                 ELSE IF value = <<"r", "e", "a", "d", "-", "o", "n", "l", "y">> THEN "ReadOnly"
                 ELSE IF value = <<"c", "h", "i", "l", "d", "-", "o", "n", "l", "y">> THEN "ChildOnly"
                 ELSE "Normal"
    IN  IF value \notin {<<"f", "a", "l", "s", "e">>, <<"r", "e", "a", "d", "-", "o", "n", "l", "y">>, <<"c", "h", "i", "l", "d", "-", "o", "n", "l", "y">>, <<"t", "r", "u", "e">>}
        THEN Ret("InvalidValue", T, << >>)
        ELSE IF /\ AccessRank(level) > AccessRank("ChildOnly")
                /\ ~IsSuperUser(client)
                /\ \E p \in Ancestors(c) : AccessRank(T[p].AccessLevel) < AccessRank("ChildOnly")
             THEN Ret("Permission", T, << >>)
        ELSE Ret("Success",
                 SetProp(Upd(T, c, "AccessLevel", level), c, "ENABLE_PORTO"), << >>)

\* TOomIsFatal::Set(value)
TOomIsFatal_Set(T, c, client, value) ==
    LET error == IsAlive(T, c)
        b == StringToBool(value, T[c].OomIsFatal)
    IN  IF error # "Success" THEN Ret(error, T, << >>)
        ELSE IF b.error # "Success" THEN Ret(b.error, T, << >>)
        ELSE Ret("Success",
                 SetProp(Upd(T, c, "OomIsFatal", b.value), c, "OOM_IS_FATAL"), << >>)

-----------------------------------------------------------------------------
(* Property handlers: controllers *)

TControllers_Set_NoRequiredCheck(T, c, client, value) ==
    LET error == IsAliveAndStopped(T, c)
        val   == StringParseFlags(value, ControllersName, ";")
    IN  IF error # "Success" THEN Ret(error, T, << >>)
        ELSE IF val.error # "Success" THEN Ret(val.error, T, << >>)
        ELSE Ret("Success",
                 SetProp(Upd(T, c, "Controllers", val.flags), c, "CONTROLLERS"), << >>)

\* TControllers::Set(value)
TControllers_Set(T, c, client, value) ==
    LET error == IsAliveAndStopped(T, c)
        val   == StringParseFlags(value, ControllersName, ";")
    IN  IF error # "Success" THEN Ret(error, T, << >>)
        ELSE IF val.error # "Success" THEN Ret(val.error, T, << >>)
        ELSE IF (val.flags \cap T[c].RequiredControllers) # T[c].RequiredControllers
             THEN Ret("InvalidValue", T, << >>)
        ELSE Ret("Success",
                 SetProp(Upd(T, c, "Controllers", val.flags), c, "CONTROLLERS"), << >>)

TControllers_SetIndexed_KeepsOld(T, c, client, index, value) ==
    LET idx    == StringParseFlags(index, ControllersName, ";")
        enable == StringToBool(value, FALSE)
        val    == IF enable.value THEN T[c].Controllers \cup idx.flags
                  ELSE T[c].Controllers
    IN  IF idx.error # "Success" THEN Ret(idx.error, T, << >>)
        ELSE IF enable.error # "Success" THEN Ret(enable.error, T, << >>)
        ELSE IF (val \cap T[c].RequiredControllers) # T[c].RequiredControllers
             THEN Ret("InvalidValue", T, << >>)
        ELSE Ret("Success", SetProp(Upd(T, c, "Controllers", val), c, "CONTROLLERS"), << >>)

\* TControllers::SetIndexed(index, value)
TControllers_SetIndexed(T, c, client, index, value) ==
    LET idx    == StringParseFlags(index, ControllersName, ";")
        enable == StringToBool(value, FALSE)
        val    == IF enable.value THEN T[c].Controllers \cup idx.flags
                  ELSE T[c].Controllers \ idx.flags
    IN  IF idx.error # "Success" THEN Ret(idx.error, T, << >>)
        ELSE IF enable.error # "Success" THEN Ret(enable.error, T, << >>)
        ELSE IF (val \cap T[c].RequiredControllers) # T[c].RequiredControllers
             THEN Ret("InvalidValue", T, << >>)
        ELSE Ret("Success", SetProp(Upd(T, c, "Controllers", val), c, "CONTROLLERS"), << >>)

-----------------------------------------------------------------------------
(* Read-only properties. A handler answers [error, T, value]; answer is what
   the collaborator it asks (a stream, a cgroup counter, the clock) gives back:
   [error, value]. *)

NoValue == "unset"

Got(error, T, value) == [error |-> error, T |-> T, value |-> value]

\* the body of the handlers that ask a collaborator once IsRunning lets them
GetRunning(T, c, answer) ==
    LET error == IsRunning(T, c)
    IN  IF error # "Success" THEN Got(error, T, NoValue)
        ELSE IF answer.error # "Success" THEN Got(answer.error, T, NoValue)
        ELSE Got("Success", T, answer.value)

\* the body of the handlers that fall back to -1 when Statistics fails
GetRunningStat(T, c, answer) ==
    LET error == IsRunning(T, c)
    IN  IF error # "Success" THEN Got(error, T, NoValue)
        ELSE IF answer.error # "Success" THEN Got("Success", T, 0 - 1)
        ELSE Got("Success", T, answer.value)

TStdoutOffset_Get(T, c, client, answer) ==
    LET error == IsRunning(T, c)
    IN  IF error # "Success" THEN Got(error, T, NoValue)
        ELSE Got("Success", T, T[c].Stdout.Offset)

TStderrOffset_Get(T, c, client, answer) ==
    LET error == IsRunning(T, c)
    IN  IF error # "Success" THEN Got(error, T, NoValue)
        ELSE Got("Success", T, T[c].Stderr.Offset)

TStdout_Get(T, c, client, answer) == GetRunning(T, c, answer)
TStdout_GetIndexed(T, c, client, index, answer) == GetRunning(T, c, answer)
TStderr_Get(T, c, client, answer) == GetRunning(T, c, answer)
TStderr_GetIndexed(T, c, client, index, answer) == GetRunning(T, c, answer)
TRootPid_Get(T, c, client, answer) == GetRunning(T, c, answer)
TMemUsage_Get(T, c, client, answer) == GetRunning(T, c, answer)
TAnonUsage_Get(T, c, client, answer) == GetRunning(T, c, answer)
THugetlbUsage_Get(T, c, client, answer) == GetRunning(T, c, answer)
TMinorFaults_Get(T, c, client, answer) == GetRunningStat(T, c, answer)
TMajorFaults_Get(T, c, client, answer) == GetRunningStat(T, c, answer)
TMaxRss_Get(T, c, client, answer) == GetRunningStat(T, c, answer)
TCpuUsage_Get(T, c, client, answer) == GetRunning(T, c, answer)
TCpuSystem_Get(T, c, client, answer) == GetRunning(T, c, answer)

\* TNetStat::Get: answer is GetNetStat's, its value the map of the devices
TNetStat_Get(T, c, client, answer) == GetRunning(T, c, answer)

\* TNetStat::GetIndexed(index)
TNetStat_GetIndexed(T, c, client, index, answer) ==
    LET error == IsRunning(T, c)
    IN  IF error # "Success" THEN Got(error, T, NoValue)
        ELSE IF answer.error # "Success" THEN Got(answer.error, T, NoValue)
        ELSE IF index \notin DOMAIN answer.value THEN Got("InvalidValue", T, NoValue)
        ELSE Got("Success", T, answer.value[index])

\* TIoStat::Get: GetMap never fails, answer.value is the map it fills
TIoStat_Get(T, c, client, answer) ==
    LET error == IsRunning(T, c)
    IN  IF error # "Success" THEN Got(error, T, NoValue)
        ELSE Got("Success", T, answer.value)

\* TIoStat::GetIndexed(index): answer.error is what ResolveDisk and DiskName
\* say of an index the map lacks, answer.name the disk they find
TIoStat_GetIndexed(T, c, client, index, answer) ==
    LET error == IsRunning(T, c)
    IN  IF error # "Success" THEN Got(error, T, NoValue)
        ELSE IF index \in DOMAIN answer.value THEN Got("Success", T, answer.value[index])
        ELSE IF answer.error # "Success" THEN Got(answer.error, T, NoValue)
        ELSE Got("Success", T, MapAt(answer.value, answer.name))

\* TTime::Get, the time of death taken at every read
TTime_Get_EveryRead(T, c, client, answer) ==
    LET error == IsRunning(T, c)
        dead  == T[c].State = "Dead"
        T1    == IF dead
                 THEN SetProp(Upd(T, c, "DeathTime", answer.value), c, "DEATH_TIME")
                 ELSE T
    IN  IF error # "Success" THEN Got(error, T, NoValue)
        ELSE IF IsRoot(c)
             THEN Got("Success", T, IF answer.error # "Success" THEN 0 - 1 ELSE answer.value)
        ELSE IF dead THEN Got("Success", T1, (T1[c].DeathTime - T1[c].StartTime) \div 1000)
        ELSE Got("Success", T1, (answer.value - T1[c].StartTime) \div 1000)

\* TTime::Get: answer.value is GetCurrentTimeMs(), or the uptime of the host
\* for the root container
TTime_Get(T, c, client, answer) ==
    LET error == IsRunning(T, c)
        dead  == T[c].State = "Dead"
        T1    == IF ~HasProp(T, c, "DEATH_TIME") /\ dead
                 THEN SetProp(Upd(T, c, "DeathTime", answer.value), c, "DEATH_TIME")
                 ELSE T
    IN  IF error # "Success" THEN Got(error, T, NoValue)
        ELSE IF IsRoot(c)
             THEN Got("Success", T, IF answer.error # "Success" THEN 0 - 1 ELSE answer.value)
        ELSE IF dead THEN Got("Success", T1, (T1[c].DeathTime - T1[c].StartTime) \div 1000)
        ELSE Got("Success", T1, (answer.value - T1[c].StartTime) \div 1000)

\* TProcessCount::Get
TProcessCount_Get(T, c, client, answer) ==
    LET error == IsRunning(T, c)
    IN  IF error # "Success" THEN Got(error, T, NoValue)
        ELSE IF IsRoot(c) THEN Got("Success", T, 0)
        ELSE IF answer.error # "Success" THEN Got(answer.error, T, NoValue)
        ELSE Got("Success", T, answer.value)

\* TThreadCount::Get: every branch asks one counter
TThreadCount_Get(T, c, client, answer) == GetRunning(T, c, answer)

\* TExitStatusProperty::Get
TExitStatusProperty_Get(T, c, client, answer) ==
    LET error == IsDead(T, c)
    IN  IF error # "Success" THEN Got(error, T, NoValue)
        ELSE Got("Success", T, T[c].ExitStatus)

\* TOomKilled::Get
TOomKilled_Get(T, c, client, answer) ==
    LET error == IsDead(T, c)
    IN  IF error = "Success" THEN Got(error, T, BoolToString(T[c].OomKilled))
        ELSE Got(error, T, NoValue)

-----------------------------------------------------------------------------
(* Formatters, and the Get handlers of the properties set by index *)

\* the characters of the model in the order of their codes
Ascii == <<" ", "0", "1", "2", "3", "4", "5", "6", "7", "8", "9", ":", ";", "=",
           "A", "B", "C", "D", "E", "G", "I", "K", "M", "N", "O", "P", "R", "S", "T",
           "U", "V", "Y", "_",
           "a", "b", "c", "d", "e", "f", "g", "h", "i", "k", "l", "m", "n", "o", "p",
           "r", "s", "t", "u", "v", "w", "x", "y">>

CharCode(ch) == CHOOSE i \in 1..Len(Ascii) : Ascii[i] = ch

\* a < b of two std::string
RECURSIVE StringLess(_, _)
StringLess(a, b) ==
    IF b = << >> THEN FALSE
    ELSE IF a = << >> THEN TRUE
    ELSE IF a[1] # b[1] THEN CharCode(a[1]) < CharCode(b[1])
    ELSE StringLess(Tail(a), Tail(b))

\* the keys of a std::map in the order its iteration visits them
RECURSIVE MapKeys(_)
MapKeys(keys) ==
    IF keys = {} THEN << >>
    ELSE Bind(CHOOSE k \in keys : \A o \in keys \ {k} : StringLess(k, o), LAMBDA first :
             <<first>> \o MapKeys(keys \ {first}))

DigitChar(d) == Ascii[d + 2]

\* std::to_string(n) of an unsigned number
RECURSIVE UintToString(_)
UintToString(n) ==
    IF n < 10 THEN <<DigitChar(n)>> ELSE UintToString(n \div 10) \o <<DigitChar(n % 10)>>

\* std::to_string(n) of an int
IntToString(n) == IF n < 0 THEN <<"-">> \o UintToString(0 - n) ELSE UintToString(n)

\* WIFSIGNALED, WTERMSIG and WEXITSTATUS of <sys/wait.h>
WTERMSIG(status) == status % 128
WIFSIGNALED(status) == WTERMSIG(status) # 0 /\ WTERMSIG(status) # 127
WEXITSTATUS(status) == (status \div 256) % 256

\* TExitCodeProperty::Get, the core-dump flag read as part of the signal
TExitCodeProperty_Get_CoreFlag(T, c, client, answer) ==
    LET error == IsDead(T, c)
    IN  IF error # "Success" THEN Got(error, T, NoValue)
        ELSE IF T[c].OomKilled THEN Got("Success", T, <<"-", "9", "9">>)
        ELSE IF WIFSIGNALED(T[c].ExitStatus)
             THEN Got("Success", T, IntToString(0 - (T[c].ExitStatus % 256)))
        ELSE Got("Success", T, IntToString(WEXITSTATUS(T[c].ExitStatus)))

\* TExitCodeProperty::Get
TExitCodeProperty_Get(T, c, client, answer) ==
    LET error == IsDead(T, c)
    IN  IF error # "Success" THEN Got(error, T, NoValue)
        ELSE IF T[c].OomKilled THEN Got("Success", T, <<"-", "9", "9">>)
        ELSE IF WIFSIGNALED(T[c].ExitStatus)
             THEN Got("Success", T, IntToString(0 - WTERMSIG(T[c].ExitStatus)))
        ELSE Got("Success", T, IntToString(WEXITSTATUS(T[c].ExitStatus)))

\* the loop of UintMapToString (uint) and of StringMapToString over keys[k..]
RECURSIVE MapEntries(_, _, _, _)
MapEntries(map, keys, k, uint) ==
    IF k > Len(keys) THEN << >>
    ELSE (IF k > 1 THEN <<";", " ">> ELSE << >>)
         \o keys[k] \o <<":", " ">>
         \o (IF uint THEN UintToString(map[keys[k]]) ELSE map[keys[k]])
         \o MapEntries(map, keys, k + 1, uint)

UintMapToString(map) == MapEntries(map, MapKeys(DOMAIN map), 1, TRUE)

StringMapToString(map) == MapEntries(map, MapKeys(DOMAIN map), 1, FALSE)

\* result << std::hex << flags, for a mask that is not empty and whose bits
\* are numbered 0..63: one digit for each four bits, from the highest that
\* is not zero
HexDigits == <<"0", "1", "2", "3", "4", "5", "6", "7", "8", "9", "a", "b", "c", "d", "e", "f">>
HexNibble(flags, i) ==
    (IF 4 * i \in flags THEN 1 ELSE 0) + (IF 4 * i + 1 \in flags THEN 2 ELSE 0)
        + (IF 4 * i + 2 \in flags THEN 4 ELSE 0) + (IF 4 * i + 3 \in flags THEN 8 ELSE 0)
HexString(flags) ==
    LET top == CHOOSE i \in 0..15 :
                   HexNibble(flags, i) # 0 /\ \A j \in (i + 1)..15 : HexNibble(flags, j) = 0
    IN  [k \in 1..(top + 1) |-> HexDigits[HexNibble(flags, top + 1 - k) + 1]]

\* the loop of StringFormatFlags over names[k..], and the bits no name took
\* written after it: first tells that nothing is written yet. The bits of
\* the capabilities and of the controllers all have names.
RECURSIVE FormatFlagNames(_, _, _, _, _)
FormatFlagNames(flags, names, k, sep, first) ==
    IF k > Len(names)
    THEN IF flags # {} THEN (IF first THEN << >> ELSE sep) \o HexString(flags) ELSE << >>
    ELSE IF names[k][1] \cap flags # {}
         THEN (IF first THEN << >> ELSE sep) \o names[k][2]
              \o FormatFlagNames(flags \ names[k][1], names, k + 1, sep, FALSE)
    ELSE FormatFlagNames(flags, names, k + 1, sep, first)

StringFormatFlags(flags, names, sep) == FormatFlagNames(flags, names, 1, sep, TRUE)

\* TCapabilities::Format()
CapFormat(caps) == StringFormatFlags(caps.Permitted, CapNames, <<";">>)

\* TCapLimit::Get
TCapLimit_Get(T, c, client, answer) == Got("Success", T, CapFormat(T[c].CapLimit))

\* TCapLimit::GetIndexed
TCapLimit_GetIndexed(T, c, client, index, answer) ==
    LET p == CapParse(index)
    IN  IF p.error # "Success" THEN Got(p.error, T, NoValue)
        ELSE Got("Success", T,
                 BoolToString((T[c].CapLimit.Permitted \cap p.caps.Permitted)
                              = p.caps.Permitted))

\* TCapAmbient::Get
TCapAmbient_Get(T, c, client, answer) == Got("Success", T, CapFormat(T[c].CapAmbient))

\* TCapAmbient::GetIndexed
TCapAmbient_GetIndexed(T, c, client, index, answer) ==
    LET p == CapParse(index)
    IN  IF p.error # "Success" THEN Got(p.error, T, NoValue)
        ELSE Got("Success", T,
                 BoolToString((T[c].CapAmbient.Permitted \cap p.caps.Permitted)
                              = p.caps.Permitted))

\* TUlimit::Get
TUlimit_Get(T, c, client, answer) == Got("Success", T, StringMapToString(T[c].Ulimit))

\* TUlimit::GetIndexed
TUlimit_GetIndexed(T, c, client, index, answer) ==
    IF index \in DOMAIN T[c].Ulimit THEN Got("Success", T, T[c].Ulimit[index])
    ELSE Got("Success", T, << >>)

\* TControllers::Get
TControllers_Get(T, c, client, answer) ==
    Got("Success", T, StringFormatFlags(T[c].Controllers, ControllersName, <<";">>))

\* TControllers::GetIndexed
TControllers_GetIndexed(T, c, client, index, answer) ==
    LET p == StringParseFlags(index, ControllersName, ";")
    IN  IF p.error # "Success" THEN Got(p.error, T, NoValue)
        ELSE Got("Success", T, BoolToString((T[c].Controllers \cap p.flags) = p.flags))

\* TIoLimit::GetMap(limit, value)
TIoLimit_GetMap(T, limit) ==
    IF DOMAIN limit = {<<"f", "s">>} THEN Got("Success", T, UintToString(limit[<<"f", "s">>]))
    ELSE Got("Success", T, UintMapToString(limit))

\* TIoLimit::GetMapIndexed(limit, index, value)
TIoLimit_GetMapIndexed(T, limit, index) ==
    IF index \notin DOMAIN limit THEN Got("InvalidValue", T, NoValue)
    ELSE Got("Success", T, UintToString(limit[index]))

\* TNetGuarantee::Get, TNetLimit::Get and TNetPriority::Get
GetNetMap(T, map) == Got("Success", T, UintMapToString(map))

\* TNetGuarantee::GetIndexed, TNetLimit::GetIndexed and TNetPriority::GetIndexed
GetNetMapIndexed(T, map, index) ==
    IF index \notin DOMAIN map THEN Got("InvalidValue", T, NoValue)
    ELSE Got("Success", T, UintToString(map[index]))

-----------------------------------------------------------------------------
(* The registry: ContainerProperties[name] and the call it dispatches *)

\* the EProperty a property is registered with: TProperty(name, prop, desc)
PropOf(prop) ==
    CASE prop = "cwd" -> "CWD"
      [] prop = "root" -> "ROOT"
      [] prop = "root_readonly" -> "ROOT_RDONLY"
      [] prop = "umask" -> "UMASK"
      [] prop = "bind" -> "BIND"
      [] prop = "bind_dns" -> "BIND_DNS"
      [] prop = "hostname" -> "HOSTNAME"
      [] prop = "resolv_conf" -> "RESOLV_CONF"
      [] prop = "porto_namespace" -> "PORTO_NAMESPACE"
      [] prop = "command" -> "COMMAND"
      [] prop = "env" -> "ENV"
      [] prop = "isolate" -> "ISOLATE"
      [] prop = "virt_mode" -> "VIRT_MODE"
      [] prop = "user" -> "USER"
      [] prop = "group" -> "GROUP"
      [] prop = "capabilities" -> "CAPABILITIES"
      [] prop = "capabilities_ambient" -> "CAPABILITIES_AMBIENT"
      [] prop = "net" -> "NET"
      [] prop = "ip" -> "IP"
      [] prop = "default_gw" -> "DEFAULT_GW"
      [] prop = "stdin_path" -> "STDIN"
      [] prop = "stdout_path" -> "STDOUT"
      [] prop = "stderr_path" -> "STDERR"
      [] prop = "ulimit" -> "ULIMIT"
      [] prop = "cpu_policy" -> "CPU_POLICY"
      [] prop = "cpu_limit" -> "CPU_LIMIT"
      [] prop = "cpu_guarantee" -> "CPU_GUARANTEE"
      [] prop = "cpu_set" -> "CPU_SET"
      [] prop = "memory_limit" -> "MEM_LIMIT"
      [] prop = "memory_guarantee" -> "MEM_GUARANTEE"
      [] prop = "anon_limit" -> "ANON_LIMIT"
      [] prop = "dirty_limit" -> "DIRTY_LIMIT"
      [] prop = "hugetlb_limit" -> "HUGETLB_LIMIT"
      [] prop = "recharge_on_pgfault" -> "RECHARGE_ON_PGFAULT"
      [] prop = "io_policy" -> "IO_POLICY"
      [] prop = "io_limit" -> "IO_LIMIT"
      [] prop = "io_ops_limit" -> "IO_OPS_LIMIT"
      [] prop = "net_guarantee" -> "NET_GUARANTEE"
      [] prop = "net_limit" -> "NET_LIMIT"
      [] prop = "net_prio" -> "NET_PRIO"
      [] prop = "respawn" -> "RESPAWN"
      [] prop = "max_respawns" -> "MAX_RESPAWNS"
      [] prop = "aging_time" -> "AGING_TIME"
      [] prop = "weak" -> "WEAK"
      [] prop = "enable_porto" -> "ENABLE_PORTO"
      [] prop = "private" -> "PRIVATE"
      [] prop = "oom_is_fatal" -> "OOM_IS_FATAL"
      [] prop = "devices" -> "DEVICES"
      [] prop = "thread_limit" -> "THREAD_LIMIT"
      [] prop = "stdout_limit" -> "STDOUT_LIMIT"
      [] prop = "controllers" -> "CONTROLLERS"
      [] prop = "raw_root_pid" -> "ROOT_PID"
      [] prop = "seize_pid" -> "SEIZE_PID"
      [] prop = "raw_loop_dev" -> "LOOP_DEV"
      [] prop = "raw_start_time" -> "START_TIME"
      [] prop = "raw_death_time" -> "DEATH_TIME"
      [] prop = "state" -> "STATE"
      [] prop = "oom_killed" -> "OOM_KILLED"
      [] prop = "respawn_count" -> "RESPAWN_COUNT"
      [] prop = "exit_status" -> "EXIT_STATUS"
      [] prop = "net_tos" -> "NET_TOS"
      [] OTHER -> "NONE"

StoppedProps == {"cwd", "root", "root_readonly", "umask", "bind", "bind_dns", "hostname",
                 "resolv_conf", "porto_namespace", "command", "env", "isolate",
                 "virt_mode", "user", "group", "capabilities", "capabilities_ambient",
                 "net", "ip", "default_gw", "stdin_path", "stdout_path", "stderr_path"}

AliveProps == {"ulimit", "cpu_policy", "cpu_limit", "cpu_guarantee", "cpu_set",
               "memory_limit", "memory_guarantee", "anon_limit", "dirty_limit",
               "hugetlb_limit", "recharge_on_pgfault", "io_policy", "io_limit",
               "io_ops_limit", "net_guarantee", "net_limit", "net_prio", "respawn",
               "max_respawns", "aging_time", "weak", "enable_porto", "private",
               "oom_is_fatal"}

UnguardedProps == {"devices", "thread_limit", "stdout_limit"}

WritableProps == StoppedProps \cup AliveProps \cup UnguardedProps \cup {"controllers"}

IndexedProps == {"ulimit", "controllers", "env", "capabilities", "capabilities_ambient",
                 "io_limit", "io_ops_limit", "net_guarantee", "net_limit", "net_prio"}

\* the properties of the model registered with IsReadOnly = true
ReadOnlyProps == {"stdout", "stderr", "stdout_offset", "stderr_offset", "time",
                  "memory_usage", "anon_usage", "hugetlb_usage", "minor_faults",
                  "major_faults", "max_rss", "cpu_usage", "cpu_system", "net_bytes",
                  "io_read", "process_count", "thread_count", "exit_status", "exit_code",
                  "oom_killed", "state", "respawn_count", "absolute_name", "parent",
                  "raw_root_pid", "seize_pid", "raw_loop_dev", "raw_start_time",
                  "raw_death_time", "net_tos"}

\* the properties with a persist key: Prop != EProperty::NONE
IsPersisted(prop) == PropOf(prop) # "NONE"

\* TProperty::Set(value), the Set of a class that does not override it
TProperty_Set(prop, T) ==
    IF prop \in ReadOnlyProps THEN Ret("InvalidValue", T, << >>)
    ELSE Ret("NotSupported", T, << >>)

\* TNetTos::Set(tos)
TNetTos_Set(T, c, client, tos) == Ret("NotSupported", T, << >>)

\* ContainerProperties[prop]->Set(value)
SetHandler(prop, T, c, client, value, answer) ==
    CASE prop = "cwd" -> TCwd_Set(T, c, client, value)
      [] prop = "root" -> TRoot_Set(T, c, client, value)
      [] prop = "root_readonly" -> TRootRo_Set(T, c, client, value)
      [] prop = "umask" -> TUmask_Set(T, c, client, value)
      [] prop = "bind" -> TBind_Set(T, c, client, value)
      [] prop = "bind_dns" -> TBindDns_Set(T, c, client, value)
      [] prop = "hostname" -> THostname_Set(T, c, client, value)
      [] prop = "resolv_conf" -> TResolvConf_Set(T, c, client, value)
      [] prop = "porto_namespace" -> TPortoNamespace_Set(T, c, client, value)
      [] prop = "command" -> TCommand_Set(T, c, client, value)
      [] prop = "env" -> TEnvProperty_Set(T, c, client, value)
      [] prop = "isolate" -> TIsolate_Set(T, c, client, value)
      [] prop = "virt_mode" -> TVirtMode_Set(T, c, client, value)
      [] prop = "user" -> TUser_Set(T, c, client, value)
      [] prop = "group" -> TGroup_Set(T, c, client, value)
      [] prop = "capabilities" -> TCapLimit_Set(T, c, client, value)
      [] prop = "capabilities_ambient" -> TCapAmbient_Set(T, c, client, value)
      [] prop = "net" -> TNet_Set(T, c, client, value)
      [] prop = "ip" -> TIp_Set(T, c, client, value)
      [] prop = "default_gw" -> TDefaultGw_Set(T, c, client, value)
      [] prop = "stdin_path" -> TStdinPath_Set(T, c, client, value)
      [] prop = "stdout_path" -> TStdoutPath_Set(T, c, client, value)
      [] prop = "stderr_path" -> TStderrPath_Set(T, c, client, value)
      [] prop = "ulimit" -> TUlimit_Set(T, c, client, value)
      [] prop = "cpu_policy" -> TCpuPolicy_Set(T, c, client, value)
      [] prop = "cpu_limit" -> TCpuLimit_Set(T, c, client, value)
      [] prop = "cpu_guarantee" -> TCpuGuarantee_Set(T, c, client, value)
      [] prop = "cpu_set" -> TCpuSet_Set(T, c, client, value)
      [] prop = "memory_limit" -> TMemoryLimit_Set(T, c, client, value, answer)
      [] prop = "memory_guarantee" -> TMemoryGuarantee_Set(T, c, client, value, answer)
      [] prop = "anon_limit" -> TAnonLimit_Set(T, c, client, value, answer)
      [] prop = "dirty_limit" -> TDirtyLimit_Set(T, c, client, value, answer)
      [] prop = "hugetlb_limit" -> THugetlbLimit_Set(T, c, client, value, answer)
      [] prop = "recharge_on_pgfault" -> TRechargeOnPgfault_Set(T, c, client, value)
      [] prop = "io_policy" -> TIoPolicy_Set(T, c, client, value)
      [] prop = "io_limit" -> TIoBpsLimit_Set(T, c, client, value)
      [] prop = "io_ops_limit" -> TIoOpsLimit_Set(T, c, client, value)
      [] prop = "net_guarantee" -> TNetGuarantee_Set(T, c, client, value)
      [] prop = "net_limit" -> TNetLimit_Set(T, c, client, value)
      [] prop = "net_prio" -> TNetPriority_Set(T, c, client, value)
      [] prop = "respawn" -> TRespawn_Set(T, c, client, value)
      [] prop = "max_respawns" -> TMaxRespawns_Set(T, c, client, value)
      [] prop = "aging_time" -> TAgingTime_Set(T, c, client, value)
      [] prop = "weak" -> TWeak_Set(T, c, client, value)
      [] prop = "enable_porto" -> TEnablePorto_Set(T, c, client, value)
      [] prop = "private" -> TPrivate_Set(T, c, client, value)
      [] prop = "oom_is_fatal" -> TOomIsFatal_Set(T, c, client, value)
      [] prop = "devices" -> TDevices_Set(T, c, client, value)
      [] prop = "thread_limit" -> TThreadLimit_Set(T, c, client, value)
      [] prop = "stdout_limit" -> TStdoutLimit_Set(T, c, client, value)
      [] prop = "controllers" -> TControllers_Set(T, c, client, value)
      [] prop = "net_tos" -> TNetTos_Set(T, c, client, value)
      [] OTHER -> TProperty_Set(prop, T)

\* ContainerProperties[prop]->SetIndexed(index, value)
SetIndexedHandler(prop, T, c, client, index, value) ==
    CASE prop = "ulimit" -> TUlimit_SetIndexed(T, c, client, index, value)
      [] prop = "controllers" -> TControllers_SetIndexed(T, c, client, index, value)
      [] prop = "env" -> TEnvProperty_SetIndexed(T, c, client, index, value)
      [] prop = "capabilities" -> TCapLimit_SetIndexed(T, c, client, index, value)
      [] prop = "capabilities_ambient" -> TCapAmbient_SetIndexed(T, c, client, index, value)
      [] prop = "io_limit" -> TIoBpsLimit_SetIndexed(T, c, client, index, value)
      [] prop = "io_ops_limit" -> TIoOpsLimit_SetIndexed(T, c, client, index, value)
      [] prop = "net_guarantee" -> TNetGuarantee_SetIndexed(T, c, client, index, value)
      [] prop = "net_limit" -> TNetLimit_SetIndexed(T, c, client, index, value)
      [] prop = "net_prio" -> TNetPriority_SetIndexed(T, c, client, index, value)

RunningReadProps == {"stdout", "stderr", "stdout_offset", "stderr_offset", "root_pid",
                     "time", "memory_usage", "anon_usage", "hugetlb_usage",
                     "minor_faults", "major_faults", "max_rss", "cpu_usage",
                     "cpu_system", "net_bytes", "io_read", "process_count",
                     "thread_count"}

DeadReadProps == {"exit_status", "exit_code", "oom_killed"}

IndexedReadProps == {"stdout", "stderr", "net_bytes", "io_read"}

\* ContainerProperties[prop]->Get(value)
GetHandler(prop, T, c, client, answer) ==
    CASE prop = "stdout" -> TStdout_Get(T, c, client, answer)
      [] prop = "stderr" -> TStderr_Get(T, c, client, answer)
      [] prop = "stdout_offset" -> TStdoutOffset_Get(T, c, client, answer)
      [] prop = "stderr_offset" -> TStderrOffset_Get(T, c, client, answer)
      [] prop = "root_pid" -> TRootPid_Get(T, c, client, answer)
      [] prop = "time" -> TTime_Get(T, c, client, answer)
      [] prop = "memory_usage" -> TMemUsage_Get(T, c, client, answer)
      [] prop = "anon_usage" -> TAnonUsage_Get(T, c, client, answer)
      [] prop = "hugetlb_usage" -> THugetlbUsage_Get(T, c, client, answer)
      [] prop = "minor_faults" -> TMinorFaults_Get(T, c, client, answer)
      [] prop = "major_faults" -> TMajorFaults_Get(T, c, client, answer)
      [] prop = "max_rss" -> TMaxRss_Get(T, c, client, answer)
      [] prop = "cpu_usage" -> TCpuUsage_Get(T, c, client, answer)
      [] prop = "cpu_system" -> TCpuSystem_Get(T, c, client, answer)
      [] prop = "net_bytes" -> TNetStat_Get(T, c, client, answer)
      [] prop = "io_read" -> TIoStat_Get(T, c, client, answer)
      [] prop = "process_count" -> TProcessCount_Get(T, c, client, answer)
      [] prop = "thread_count" -> TThreadCount_Get(T, c, client, answer)
      [] prop = "exit_status" -> TExitStatusProperty_Get(T, c, client, answer)
      [] prop = "exit_code" -> TExitCodeProperty_Get(T, c, client, answer)
      [] prop = "oom_killed" -> TOomKilled_Get(T, c, client, answer)
      [] prop = "capabilities" -> TCapLimit_Get(T, c, client, answer)
      [] prop = "capabilities_ambient" -> TCapAmbient_Get(T, c, client, answer)
      [] prop = "ulimit" -> TUlimit_Get(T, c, client, answer)
      [] prop = "controllers" -> TControllers_Get(T, c, client, answer)
      [] prop = "io_limit" -> TIoLimit_GetMap(T, T[c].IoBpsLimit)
      [] prop = "io_ops_limit" -> TIoLimit_GetMap(T, T[c].IoOpsLimit)
      [] prop = "net_guarantee" -> GetNetMap(T, T[c].NetGuarantee)
      [] prop = "net_limit" -> GetNetMap(T, T[c].NetLimit)
      [] prop = "net_prio" -> GetNetMap(T, T[c].NetPriority)
      [] prop = "cwd" -> Got("Success", T, T[c].Cwd)
      [] prop = "oom_is_fatal" -> Got("Success", T, BoolToString(T[c].OomIsFatal))
      [] prop = "enable_porto" ->
             Got("Success", T, CASE T[c].AccessLevel = "None" -> <<"f", "a", "l", "s", "e">>
                                 [] T[c].AccessLevel = "ReadOnly" -> <<"r", "e", "a", "d", "-", "o", "n", "l", "y">>
                                 [] T[c].AccessLevel = "ChildOnly" -> <<"c", "h", "i", "l", "d", "-", "o", "n", "l", "y">>
                                 [] OTHER -> <<"t", "r", "u", "e">>)
      [] prop = "state" -> Got("Success", T, T[c].State)
      [] prop = "respawn_count" -> Got("Success", T, T[c].RespawnCount)
      [] prop = "raw_root_pid" ->
             Got("Success", T, <<T[c].TaskPid, T[c].TaskVPid, T[c].WaitTaskPid>>)
      [] prop = "seize_pid" -> Got("Success", T, T[c].SeizePid)
      [] prop = "raw_loop_dev" -> Got("Success", T, T[c].LoopDev)
      [] prop = "raw_start_time" -> Got("Success", T, T[c].StartTime)
      [] prop = "raw_death_time" -> Got("Success", T, T[c].DeathTime)
      [] prop = "net_tos" -> Got("NotSupported", T, NoValue)

\* ContainerProperties[prop]->GetIndexed(index, value)
GetIndexedHandler(prop, T, c, client, index, answer) ==
    CASE prop = "stdout" -> TStdout_GetIndexed(T, c, client, index, answer)
      [] prop = "stderr" -> TStderr_GetIndexed(T, c, client, index, answer)
      [] prop = "net_bytes" -> TNetStat_GetIndexed(T, c, client, index, answer)
      [] prop = "io_read" -> TIoStat_GetIndexed(T, c, client, index, answer)
      [] prop = "capabilities" -> TCapLimit_GetIndexed(T, c, client, index, answer)
      [] prop = "capabilities_ambient" -> TCapAmbient_GetIndexed(T, c, client, index, answer)
      [] prop = "ulimit" -> TUlimit_GetIndexed(T, c, client, index, answer)
      [] prop = "controllers" -> TControllers_GetIndexed(T, c, client, index, answer)
      [] prop = "io_limit" -> TIoLimit_GetMapIndexed(T, T[c].IoBpsLimit, index)
      [] prop = "io_ops_limit" -> TIoLimit_GetMapIndexed(T, T[c].IoOpsLimit, index)
      [] prop = "net_guarantee" -> GetNetMapIndexed(T, T[c].NetGuarantee, index)
      [] prop = "net_limit" -> GetNetMapIndexed(T, T[c].NetLimit, index)
      [] prop = "net_prio" -> GetNetMapIndexed(T, T[c].NetPriority, index)

\* TRawRootPid::SetFromRestore(value): "<Task.Pid>;<TaskVPid>;<WaitTask.Pid>";
\* a field whose number does not read keeps its value
TRawRootPid_SetFromRestore(T, c, value) ==
    LET val  == SplitEscapedTuple(value, ";")
        pid  == IF Len(val) > 0 THEN StringToInt(val[1], T[c].TaskPid)
                ELSE [error |-> "Success", value |-> 0]
        vpid == IF pid.error = "Success" /\ Len(val) > 1
                THEN StringToInt(val[2], T[c].TaskVPid)
                ELSE [error |-> pid.error, value |-> 0]
        wait == IF vpid.error = "Success" /\ Len(val) > 2
                THEN StringToInt(val[3], T[c].WaitTaskPid)
                ELSE [error |-> vpid.error, value |-> pid.value]
    IN  Ret(wait.error,
            [T EXCEPT ![c].TaskPid = pid.value, ![c].TaskVPid = vpid.value,
                      ![c].WaitTaskPid = wait.value], << >>)

\* the SetFromRestore of a class that reads one number or boolean into field
RestoreField(T, c, field, parsed) == Ret(parsed.error, Upd(T, c, field, parsed.value), << >>)

\* ContainerProperties[prop]->SetFromRestore(value): the classes that
\* override it, and TProperty::SetFromRestore for the others
SetFromRestore(prop, T, c, client, value, answer) ==
    CASE prop = "raw_root_pid" -> TRawRootPid_SetFromRestore(T, c, value)
      [] prop = "seize_pid" -> RestoreField(T, c, "SeizePid", StringToInt(value, T[c].SeizePid))
      [] prop = "raw_loop_dev" -> RestoreField(T, c, "LoopDev", StringToInt(value, T[c].LoopDev))
      [] prop = "raw_start_time" ->
             RestoreField(T, c, "StartTime", StringToUint64(value, T[c].StartTime))
      [] prop = "raw_death_time" ->
             RestoreField(T, c, "DeathTime", StringToUint64(value, T[c].DeathTime))
      [] prop = "oom_killed" ->
             RestoreField(T, c, "OomKilled", StringToBool(value, T[c].OomKilled))
      [] prop = "respawn_count" ->
             RestoreField(T, c, "RespawnCount", StringToUint64(value, T[c].RespawnCount))
      [] prop = "exit_status" ->
             RestoreField(T, c, "ExitStatus", StringToInt(value, T[c].ExitStatus))
      [] OTHER -> IF IsPersisted(prop) THEN SetHandler(prop, T, c, client, value, answer)
                  ELSE Ret("Unknown", T, << >>)

\* GetToSave as TProperty::GetToSave alone, overridden by no class
GetToSave_NoOverride(prop, T, c, client, answer) ==
    IF IsPersisted(prop) THEN GetHandler(prop, T, c, client, answer)
    ELSE Got("Unknown", T, NoValue)

\* ContainerProperties[prop]->GetToSave(value): TOomKilled and
\* TExitStatusProperty override it, TProperty::GetToSave for the others
GetToSave(prop, T, c, client, answer) ==
    CASE prop = "oom_killed" -> Got("Success", T, BoolToString(T[c].OomKilled))
      [] prop = "exit_status" -> Got("Success", T, T[c].ExitStatus)
      [] OTHER -> IF IsPersisted(prop) THEN GetHandler(prop, T, c, client, answer)
                  ELSE Got("Unknown", T, NoValue)

-----------------------------------------------------------------------------
(* The requests a client may send: for each property a few values, some that
   parse and pass validation and some that do not *)

\* the values sent to a property that has no Set of its own
SavedValuesOf(prop) ==
    CASE prop = "state" -> {<<"r", "u", "n", "n", "i", "n", "g">>, <<"d", "e", "a", "d">>}
      [] prop = "oom_killed" -> {<<"t", "r", "u", "e">>, <<"x">>}
      [] prop \in {"respawn_count", "raw_start_time", "raw_death_time"} -> {<<"1", "0", "0", "0">>, <<"x">>}
      [] prop \in {"exit_status", "seize_pid", "raw_loop_dev"} -> {<<"2", "5", "6">>, <<"-", "1">>, <<"x">>}
      [] prop = "raw_root_pid" -> {<<"1", "0", ";", "1", "1", ";", "1", "2">>, <<"1", "0">>, << >>, <<"1", "0", ";", "x">>}
      [] OTHER -> {<<"1">>}

ValuesOf(prop) ==
    CASE prop \in {"cwd", "root", "hostname", "porto_namespace", "command", "stdin_path",
                   "stdout_path", "stderr_path", "cpu_set"} -> {<<"/", "w">>, << >>}
      [] prop \in {"resolv_conf", "devices"} -> {<<"a", " ", "b", ";", "c">>, << >>}
      [] prop \in {"root_readonly", "isolate", "bind_dns", "recharge_on_pgfault", "respawn",
                   "weak", "oom_is_fatal"} -> {<<"t", "r", "u", "e">>, <<"f", "a", "l", "s", "e">>, <<"y", "e", "s">>}
      [] prop = "umask" -> {<<"0", "2", "7">>, <<"9">>, <<"x">>}
      [] prop = "virt_mode" -> {<<"o", "s">>, <<"v", "m">>}
      [] prop = "user" -> {<<"a", "l", "i", "c", "e">>, <<"b", "o", "b">>, <<"n", "o", "b", "o", "d", "y">>, <<"1", "0", "0", "1">>}
      [] prop = "group" -> {<<"u", "s", "e", "r", "s">>, <<"b", "o", "b">>, <<"n", "o", "g", "r", "o", "u", "p">>}
      [] prop = "capabilities" -> {<<"N", "E", "T", "_", "A", "D", "M", "I", "N">>, <<"N", "E", "T", "_", "A", "D", "M", "I", "N", ";", "S", "Y", "S", "_", "P", "T", "R", "A", "C", "E">>, <<"S", "Y", "S", "_", "A", "D", "M", "I", "N", ";", "N", "E", "T", "_", "A", "D", "M", "I", "N">>, <<"B", "O", "G", "U", "S">>, <<"A", "U", "D", "I", "T", "_", "R", "E", "A", "D">>}
      [] prop = "capabilities_ambient" -> {<<"N", "E", "T", "_", "B", "I", "N", "D", "_", "S", "E", "R", "V", "I", "C", "E">>, <<"S", "Y", "S", "_", "A", "D", "M", "I", "N">>, <<"B", "O", "G", "U", "S">>}
      [] prop = "net" -> {<<"i", "n", "h", "e", "r", "i", "t", "e", "d">>, <<"n", "o", "n", "e">>, <<"b", "o", "g", "u", "s", " ", "x">>}
      [] prop \in {"ip", "default_gw"} -> {<<"e", "t", "h", "0", " ", "1", ".", "2", ".", "3", ".", "4">>, <<"e", "t", "h", "0">>}
      [] prop = "env" -> {<<"A", "=", "1", ";", "B", "=", "2">>, <<"A">>}
      [] prop = "bind" -> {<<"/", "a", " ", "/", "b", " ", "r", "o">>, <<"/", "a">>}
      [] prop = "ulimit" -> {<<"n", "o", "f", "i", "l", "e", ":", " ", "1", "0", " ", "2", "0">>, <<"b", "o", "g", "u", "s", ":", " ", "1">>, <<"n", "o", "f", "i", "l", "e">>}
      [] prop = "cpu_policy" -> {<<"r", "t">>, <<"i", "d", "l", "e">>, <<"f", "a", "s", "t">>, <<"n", "o", "r", "m", "a", "l">>, <<"h", "i", "g", "h">>, <<"b", "a", "t", "c", "h">>, <<"i", "s", "o">>}
      [] prop = "io_policy" -> {<<"b", "a", "t", "c", "h">>, <<"s", "l", "o", "w">>}
      [] prop = "cpu_limit" -> {<<"2", "c">>, <<"1", "c">>, <<"5", "0">>, <<"8", "c">>, <<"x">>}
      [] prop = "cpu_guarantee" -> {<<"2", "c">>, <<"5", "0">>, <<"8", "c">>, <<"x">>}
      [] prop \in {"memory_limit", "anon_limit", "dirty_limit"} ->
             {<<"2", "K">>, <<"1">>, <<"1", "0", "x">>, <<"0">>, <<"-", "1">>}
      [] prop = "memory_guarantee" ->
             {<<"6", "0">>, <<"4", "0">>, <<"3", "0">>, <<"9", "5">>, <<"1", "x">>, <<"-", "1">>}
      [] prop = "hugetlb_limit" -> {<< >>, <<"2", "K">>, <<"x">>}
      [] prop = "thread_limit" -> {<<"1", "0">>, <<"x">>}
      [] prop = "stdout_limit" -> {<<"1", "K">>, <<"8", "K">>, <<"x">>}
      [] prop \in {"io_limit", "io_ops_limit"} -> {<<"1", "0">>, <<"f", "s", ":", " ", "1", "0", ";", " ", "s", "d", "a", ":", " ", "5">>, <<"s", "d", "a", ":", " ", "x">>, <<"x">>}
      [] prop \in {"net_guarantee", "net_limit", "net_prio"} ->
             {<<"d", "e", "f", "a", "u", "l", "t", ":", " ", "5">>, <<"d", "e", "f", "a", "u", "l", "t", ":", " ", "3", ";", " ", "e", "t", "h", "0", ":", " ", "9">>, <<"e", "t", "h", "0">>}
      [] prop = "max_respawns" -> {<<"3">>, <<"x">>}
      [] prop = "aging_time" -> {<<"5">>, <<"x">>}
      [] prop = "enable_porto" ->
             {<<"f", "a", "l", "s", "e">>, <<"t", "r", "u", "e">>, <<"r", "e", "a", "d", "-", "o", "n", "l", "y">>, <<"c", "h", "i", "l", "d", "-", "o", "n", "l", "y">>, <<"m", "a", "y", "b", "e">>}
      [] prop = "private" -> {<<"t", "a", "g">>, <<"t", "o", "o", "l", "o", "n", "g">>}
      [] prop = "controllers" -> {<<"m", "e", "m", "o", "r", "y", ";", "c", "p", "u">>, <<"c", "p", "u">>, << >>, <<"b", "o", "g", "u", "s">>}
      [] OTHER -> SavedValuesOf(prop)

\* <<index, value>> pairs of the indexed writes
IndexedValuesOf(prop) ==
    CASE prop = "ulimit" -> {<<<<"n", "o", "f", "i", "l", "e">>, <<"1", "0">>>>, <<<<"n", "o", "f", "i", "l", "e">>, << >>>>, <<<<"b", "o", "g", "u", "s">>, <<"1">>>>}
      [] prop = "controllers" ->
             {<<<<"m", "e", "m", "o", "r", "y">>, <<"t", "r", "u", "e">>>>, <<<<"m", "e", "m", "o", "r", "y">>, <<"f", "a", "l", "s", "e">>>>, <<<<"c", "p", "u">>, <<"t", "r", "u", "e">>>>,
              <<<<"b", "o", "g", "u", "s">>, <<"t", "r", "u", "e">>>>, <<<<"c", "p", "u">>, <<"m", "a", "y", "b", "e">>>>}
      [] prop = "env" -> {<<<<"A">>, <<"1">>>>, <<<< >>, <<"1">>>>}
      [] prop = "capabilities" ->
             {<<<<"N", "E", "T", "_", "A", "D", "M", "I", "N">>, <<"f", "a", "l", "s", "e">>>>, <<<<"S", "Y", "S", "_", "A", "D", "M", "I", "N">>, <<"t", "r", "u", "e">>>>, <<<<"B", "O", "G", "U", "S">>, <<"t", "r", "u", "e">>>>,
              <<<<"N", "E", "T", "_", "A", "D", "M", "I", "N">>, <<"m", "a", "y", "b", "e">>>>}
      [] prop = "capabilities_ambient" ->
             {<<<<"N", "E", "T", "_", "B", "I", "N", "D", "_", "S", "E", "R", "V", "I", "C", "E">>, <<"t", "r", "u", "e">>>>, <<<<"B", "O", "G", "U", "S">>, <<"t", "r", "u", "e">>>>,
              <<<<"N", "E", "T", "_", "B", "I", "N", "D", "_", "S", "E", "R", "V", "I", "C", "E">>, <<"m", "a", "y", "b", "e">>>>}
      [] prop \in {"io_limit", "io_ops_limit"} ->
             {<<<<"f", "s">>, <<"1", "0">>>>, <<<<"s", "d", "a">>, <<"1", "K">>>>, <<<<"s", "d", "a">>, <<"x">>>>}
      [] prop \in {"net_guarantee", "net_limit", "net_prio"} ->
             {<<<<"e", "t", "h", "0">>, <<"5">>>>, <<<<"e", "t", "h", "0">>, <<"0">>>>, <<<<"e", "t", "h", "0">>, <<"9">>>>, <<<<"e", "t", "h", "0">>, <<"x">>>>}

NoAnswer == [error |-> "Success", value |-> 0]

\* what the collaborators may answer: a counter or a map, or a failure
AnswersOf(prop) ==
    CASE prop = "hugetlb_limit" ->
             {[error |-> "Success", usage |-> 0], [error |-> "Success", usage |-> 4096],
              [error |-> "Unknown", usage |-> 0]}
      [] prop \in {"memory_guarantee", "memory_limit", "anon_limit", "dirty_limit"} ->
             {[error |-> "Success", value |-> 0, cast |-> k] : k \in DoubleCasts}
      [] prop \in {"net_bytes", "io_read"} ->
             {[error |-> "Success", value |-> MapPut(EmptyMap, <<"e", "t", "h", "0">>, 7), name |-> <<"e", "t", "h", "0">>],
              [error |-> "Unknown", value |-> EmptyMap, name |-> << >>]}
      [] prop \in {"stdout_offset", "stderr_offset", "exit_status", "exit_code", "oom_killed"}
             -> {NoAnswer}
      [] prop = "time" ->
             {[error |-> "Success", value |-> 5000], [error |-> "Success", value |-> 7000]}
      [] prop \in RunningReadProps ->
             {[error |-> "Success", value |-> 5000], [error |-> "Unknown", value |-> 0]}
      [] OTHER -> {NoAnswer}

IndexesOf(prop) == {<<"e", "t", "h", "0">>, <<"s", "d", "a">>}

Targets == {"a/b"}

\* the properties whose handlers read CurrentClient, and, per property,
\* the clients a request is taken from: both where the handler reads the
\* client, one where it does not
ClientProps == {"capabilities", "capabilities_ambient", "virt_mode", "user", "group",
                "cpu_limit", "stdout_limit", "enable_porto"}
ClientsOf(prop) == IF prop \in ClientProps THEN Clients ELSE {AliceClient}

-----------------------------------------------------------------------------
(* The state machine *)

\* the threads that serve requests step by step, and a thread serving none
Threads == {1, 2}
IdleOp == [pc |-> "idle", c |-> "a/b", value |-> << >>, new_val |-> 0, usage |-> 0,
           error |-> "Success"]
NoOps == [t \in Threads |-> IdleOp]

NoRequest ==
    [kind |-> "none", prop |-> "none", c |-> "a/b", client |-> RootClient, index |-> << >>,
     value |-> << >>, answer |-> NoAnswer, error |-> "Success", wc |-> << >>,
     out |-> NoValue, pre |-> << >>, post |-> << >>]

Init ==
    /\ Container = [n \in Names |->
                       IF n = "/" THEN NewContainer("Running", RootCred)
                       ELSE IF n = "a" THEN NewContainer("Running", AliceCred)
                       ELSE NewContainer("Stopped", AliceCred)]
    /\ last = NoRequest
    /\ nreq = 0
    /\ ops = NoOps

\* the reply of a request: the tree the handler leaves and what it answered
Reply(kind, prop, c, client, index, value, answer, r, out) ==
    /\ nreq < MaxRequests
    /\ Container' = r.T
    /\ last' = [kind |-> kind, prop |-> prop, c |-> c, client |-> client, index |-> index,
                value |-> value, answer |-> answer, error |-> r.error, wc |-> r.wc,
                out |-> out, pre |-> Container, post |-> r.T]
    /\ nreq' = nreq + 1
    /\ UNCHANGED ops

\* set(prop, value) on one of the containers targets
SetOn(props, targets) ==
    \E prop \in props, c \in targets :
        \E client \in ClientsOf(prop), value \in ValuesOf(prop), answer \in AnswersOf(prop) :
            Reply("set", prop, c, client, << >>, value, answer,
                  SetHandler(prop, Container, c, client, value, answer), NoValue)

Set(props) == SetOn(props, Targets)

\* set_indexed(prop, index, value) on one of the containers targets
SetIndexedOn(props, targets) ==
    \E prop \in props, c \in targets :
        \E client \in ClientsOf(prop), iv \in IndexedValuesOf(prop) :
            Reply("set_indexed", prop, c, client, iv[1], iv[2], NoAnswer,
                  SetIndexedHandler(prop, Container, c, client, iv[1], iv[2]), NoValue)

SetIndexed(props) == SetIndexedOn(props, Targets)

\* get(prop)
Get(props) ==
    \E prop \in props, c \in Targets :
        \E client \in ClientsOf(prop), answer \in AnswersOf(prop) :
            LET g == GetHandler(prop, Container, c, client, answer)
            IN  Reply("get", prop, c, client, << >>, << >>, answer,
                      Ret(g.error, g.T, << >>), g.value)

\* get_indexed(prop, index)
GetIndexed(props) ==
    \E prop \in props, c \in Targets :
        \E client \in ClientsOf(prop), index \in IndexesOf(prop), answer \in AnswersOf(prop) :
            LET g == GetIndexedHandler(prop, Container, c, client, index, answer)
            IN  Reply("get_indexed", prop, c, client, index, << >>, answer,
                      Ret(g.error, g.T, << >>), g.value)

\* restore(prop, value): SetFromRestore of the property
Restore(props) ==
    \E prop \in props, c \in Targets :
        \E client \in ClientsOf(prop), answer \in AnswersOf(prop),
           value \in ValuesOf(prop) :
            Reply("restore", prop, c, client, << >>, value, answer,
                  SetFromRestore(prop, Container, c, client, value, answer), NoValue)

\* save(prop): GetToSave of the property
Save(props) ==
    \E prop \in props, c \in Targets :
        \E client \in ClientsOf(prop), answer \in AnswersOf(prop) :
            LET g == GetToSave(prop, Container, c, client, answer)
            IN  Reply("save", prop, c, client, << >>, << >>, answer,
                      Ret(g.error, g.T, << >>), g.value)

\* the lifecycle of a container: Stopped, Starting, Running (and Paused,
\* and back), and Dead at the exit of its task
Start ==
    /\ \E c \in Targets :
          /\ Container[c].State = "Stopped"
          /\ Container' = [Container EXCEPT ![c].State = "Starting", ![c].StartTime = 1000]
    /\ UNCHANGED <<last, nreq, ops>>

Started ==
    /\ \E c \in Targets :
          /\ Container[c].State = "Starting"
          /\ Container' = [Container EXCEPT ![c].State = "Running"]
    /\ UNCHANGED <<last, nreq, ops>>

Pause ==
    /\ \E c \in Targets :
          /\ Container[c].State = "Running"
          /\ Container' = [Container EXCEPT ![c].State = "Paused"]
    /\ UNCHANGED <<last, nreq, ops>>

Resume ==
    /\ \E c \in Targets :
          /\ Container[c].State = "Paused"
          /\ Container' = [Container EXCEPT ![c].State = "Running"]
    /\ UNCHANGED <<last, nreq, ops>>

\* the task exits: outcomes are the <<ExitStatus, OomKilled>> it may leave
Exit(outcomes) ==
    /\ \E c \in Targets, o \in outcomes :
          /\ Container[c].State = "Running"
          /\ Container' = [Container EXCEPT ![c].State = "Dead", ![c].ExitStatus = o[1],
                                            ![c].OomKilled = o[2]]
    /\ UNCHANGED <<last, nreq, ops>>

ExitOutcomes == {<<0, FALSE>>, <<256, FALSE>>, <<9, FALSE>>, <<9, TRUE>>}
CleanExit == {<<0, FALSE>>}

Lifecycle(outcomes) == Start \/ Started \/ Pause \/ Resume \/ Exit(outcomes)

Next ==
    \/ Lifecycle(CleanExit)
    \/ Set(WritableProps)
    \/ SetIndexed(IndexedProps)
    \/ Get(RunningReadProps \cup DeadReadProps)
    \/ GetIndexed(IndexedReadProps)

Spec == Init /\ [][Next]_vars

\* writes of the properties that only a stopped container takes
NextStopped == Lifecycle(CleanExit) \/ Set(StoppedProps)
SpecStopped == Init /\ [][NextStopped]_vars

\* writes of the properties a living container takes
NextAlive == Lifecycle(CleanExit) \/ Set(AliveProps)
SpecAlive == Init /\ [][NextAlive]_vars

\* indexed writes
NextIndexed == Lifecycle(CleanExit) \/ SetIndexed(IndexedProps)
SpecIndexed == Init /\ [][NextIndexed]_vars

\* reads of the derived properties
NextRead ==
    \/ Lifecycle(ExitOutcomes)
    \/ Get(RunningReadProps \cup DeadReadProps)
    \/ GetIndexed(IndexedReadProps)
SpecRead == Init /\ [][NextRead]_vars

\* limits over the tree: a runs with the memory and cpu controllers, a/b
\* goes through its lifecycle, and both are given guarantees or limits
InitLimits ==
    /\ Container = [n \in Names |->
                       IF n = "/" THEN NewContainer("Running", RootCred)
                       ELSE IF n = "a"
                       THEN [NewContainer("Running", AliceCred)
                                EXCEPT !.Controllers = {CGROUP_MEMORY, CGROUP_CPU},
                                       !.RequiredControllers = {CGROUP_MEMORY, CGROUP_CPU}]
                       ELSE NewContainer("Stopped", AliceCred)]
    /\ last = NoRequest
    /\ nreq = 0
    /\ ops = NoOps

NextMemory == Lifecycle(CleanExit) \/ SetOn({"memory_guarantee"}, {"a", "a/b"})
SpecMemory == InitLimits /\ [][NextMemory]_vars

NextCpu == Lifecycle(CleanExit) \/ SetOn({"cpu_limit"}, {"a", "a/b"})
SpecCpu == InitLimits /\ [][NextCpu]_vars

\* set(prop, value) sent by one of the clients given
SetByOn(clients, props, targets) ==
    \E prop \in props, c \in targets :
        \E client \in clients, value \in ValuesOf(prop), answer \in AnswersOf(prop) :
            Reply("set", prop, c, client, << >>, value, answer,
                  SetHandler(prop, Container, c, client, value, answer), NoValue)

\* the clients that are not the superuser
Users == {cl \in Clients : ~IsSuperUser(cl)}

\* cpu limits over the tree when no superuser sends a request
NextCpuUsers == Lifecycle(CleanExit) \/ SetByOn(Users, {"cpu_limit"}, {"a", "a/b"})
SpecCpuUsers == InitLimits /\ [][NextCpuUsers]_vars

\* capabilities over the tree: a and a/b are Stopped, a/b is owned by alice
\* or by root and was or was not put in virt_mode os by its owner; both
\* clients set the limit and the ambient set of both containers
CapProps == {"capabilities", "capabilities_ambient"}

InitCaps ==
    /\ \E owner \in {AliceCred, RootCred}, os \in BOOLEAN :
          Container =
              Bind([n \in Names |->
                       IF n = "/" THEN NewContainer("Running", RootCred)
                       ELSE IF n = "a" THEN NewContainer("Stopped", AliceCred)
                       ELSE NewContainer("Stopped", owner)], LAMBDA T :
                  IF os
                  THEN TVirtMode_Set(T, "a/b", IF IsRootUser(owner) THEN RootClient
                                               ELSE AliceClient, <<"o", "s">>).T
                  ELSE T)
    /\ last = NoRequest
    /\ nreq = 0
    /\ ops = NoOps

NextCaps == SetOn(CapProps, {"a", "a/b"}) \/ SetIndexedOn(CapProps, {"a", "a/b"})
SpecCaps == InitCaps /\ [][NextCaps]_vars

\* what a restart replays: properties with a persist key, written by set or
\* read-only, and two without one
RestoredProps == StoppedProps \cup {"cpu_limit", "memory_limit", "enable_porto",
                                    "controllers", "devices", "stdout_limit"}
                     \cup {"state", "oom_killed", "respawn_count", "exit_status",
                           "raw_root_pid", "seize_pid", "raw_loop_dev", "raw_start_time",
                           "raw_death_time", "net_tos", "exit_code", "time"}
NextRestore == Lifecycle(CleanExit) \/ Restore(RestoredProps)
SpecRestore == Init /\ [][NextRestore]_vars

\* what is saved of a/b through its lifecycle: properties with a persist key
\* and some without one
SavedProps == {"capabilities", "capabilities_ambient", "ulimit", "controllers",
               "io_limit", "net_prio", "cwd", "oom_is_fatal", "enable_porto", "state",
               "respawn_count", "raw_root_pid", "seize_pid", "raw_loop_dev",
               "raw_start_time", "raw_death_time", "net_tos", "oom_killed", "exit_status"}
                  \cup {"exit_code", "time", "memory_usage", "stdout", "root_pid"}
NextSave ==
    \/ Lifecycle(ExitOutcomes)
    \/ Set({"cwd", "enable_porto", "ulimit", "net_prio"})
    \/ Save(SavedProps)
SpecSave == Init /\ [][NextSave]_vars

\* sets of the read-only properties of a/b, by both clients
NextReadOnly == Lifecycle(CleanExit) \/ SetByOn(Clients, ReadOnlyProps, Targets)
SpecReadOnly == Init /\ [][NextReadOnly]_vars

\* the properties whose handler reads the client, set on a and on a/b by
\* both clients
NextClients == Lifecycle(CleanExit) \/ SetOn(ClientProps, {"a", "a/b"})
SpecClients == Init /\ [][NextClients]_vars

\* the access level of a and of a/b, set by both clients and by users only
NextAccess == Lifecycle(CleanExit) \/ SetOn({"enable_porto"}, {"a", "a/b"})
SpecAccess == Init /\ [][NextAccess]_vars
NextAccessUsers == Lifecycle(CleanExit) \/ SetByOn(Users, {"enable_porto"}, {"a", "a/b"})
SpecAccessUsers == Init /\ [][NextAccessUsers]_vars

\* the memory limits of a/b through its lifecycle
MemLimitProps == {"memory_limit", "anon_limit", "dirty_limit"}
NextMemLimits == Lifecycle(CleanExit) \/ Set(MemLimitProps)
SpecMemLimits == Init /\ [][NextMemLimits]_vars

\* the exit of the task of a/b in every way the claim names, the status and
\* the flag also as a restart restores them, and reads of exit_code
ExitCodeOutcomes == {<<0, FALSE>>, <<256, FALSE>>, <<768, FALSE>>, <<9, FALSE>>, <<139, FALSE>>,
                     <<4991, FALSE>>, <<9, TRUE>>, <<256, TRUE>>, <<0, TRUE>>}
NextExitCode ==
    \/ Lifecycle(ExitCodeOutcomes)
    \/ Restore({"exit_status", "oom_killed"})
    \/ Get({"exit_code"})
SpecExitCode == Init /\ [][NextExitCode]_vars

\* reads of time over the states of a/b, at two values of the clock, the
\* times of start and death also as a restart restores them
NextTime ==
    \/ Lifecycle(CleanExit)
    \/ Restore({"raw_start_time", "raw_death_time"})
    \/ Get({"time"})
SpecTime == Init /\ [][NextTime]_vars

\* cpu_policy set on a/b through its lifecycle, on a host with the smart
\* scheduler and on one without it
InitCpuPolicy ==
    /\ \E smart \in BOOLEAN :
          Container = [n \in Names |->
                          IF n = "/" THEN [NewContainer("Running", RootCred) EXCEPT !.HasSmart = smart]
                          ELSE IF n = "a" THEN NewContainer("Running", AliceCred)
                          ELSE NewContainer("Stopped", AliceCred)]
    /\ last = NoRequest
    /\ nreq = 0
    /\ ops = NoOps
NextCpuPolicy == Lifecycle(CleanExit) \/ Set({"cpu_policy"})
SpecCpuPolicy == InitCpuPolicy /\ [][NextCpuPolicy]_vars

\* the limit of the streams of a/b and their paths, set by alice and by the
\* superuser through its lifecycle
NextStdoutLimit ==
    \/ Lifecycle(CleanExit)
    \/ Set({"stdout_limit"})
    \/ SetByOn(Clients, {"stdout_path", "stderr_path"}, Targets)
SpecStdoutLimit == Init /\ [][NextStdoutLimit]_vars

\* the tuple codec on its own: every string of up to MaxCodecLen characters
\* over a letter, the two separators and the backslash is split, and lists
\* of tuples of tokens over the same characters are merged
MaxCodecLen == 4
CodecChars == {"a", " ", ";", "\\"}
SeqsUpTo(A, n) == UNION {[1..k -> A] : k \in 0..n}
CodecStrings == SeqsUpTo(CodecChars, MaxCodecLen)
CodecTokens(n) == SeqsUpTo(CodecChars, n) \ {<< >>}
CodecTuples(n) == SeqsUpTo(CodecTokens(n), 2) \ {<< >>}
CodecLists == (SeqsUpTo(CodecTuples(1), 2) \ {<< >>}) \cup {<<t>> : t \in CodecTuples(2)}

\* one call of the codec: what it was given and what it gave back
CodecCall(kind, input, output) ==
    /\ nreq < MaxRequests
    /\ nreq' = nreq + 1
    /\ UNCHANGED ops
    /\ last' = [NoRequest EXCEPT !.kind = kind, !.value = input, !.out = output]
    /\ UNCHANGED Container

SplitString == \E s \in CodecStrings : CodecCall("split", s, SplitEscapedString(s, " ", ";"))
MergeTuples == \E T \in CodecLists : CodecCall("merge", T, MergeEscapeStrings(T, " ", ";"))

\* the flag codec on its own, over a table with a mask of one bit, a mask of
\* two bits, and bits 4 and 63 that no name holds
FlagTable == <<<<{0}, <<"r", "o">>>>, <<{1, 2}, <<"r", "w">>>>, <<{3}, <<"x">>>>>>
FlagBits == {0, 1, 2, 3, 4, 63}
FlagStrings == {<<"r", "o">>, <<"r", "o", ";", "x">>, <<"r", "w", ";", " ", "r", "o">>, << >>,
                <<"z">>, <<"r", "o", ";", "z">>, <<"1", "0">>, <<"R", "O">>, <<"r", "o", ";", ";", "x">>}
FormatFlags ==
    \E x \in SUBSET FlagBits : CodecCall("format", x, StringFormatFlags(x, FlagTable, <<";">>))
ParseFlags ==
    \E str \in FlagStrings : CodecCall("parse", str, StringParseFlags(str, FlagTable, ";"))

NextCodec == SplitString \/ MergeTuples \/ FormatFlags \/ ParseFlags
SpecCodec == Init /\ [][NextCodec]_vars

\* two sets of memory_guarantee served at once, thread 1 on a and thread 2
\* on a/b, each in the three steps of TMemoryGuarantee::Set, the steps of
\* the two interleaved in every order; a and a/b hold the memory controller
\* and start with guarantees an earlier set has left
ThreadTarget(t) == IF t = 1 THEN "a" ELSE "a/b"
InitConcurrent ==
    /\ \E ga \in {0, 60}, gb \in {0, 30}, sb \in {"Stopped", "Running"} :
          Container = [n \in Names |->
                          IF n = "/" THEN NewContainer("Running", RootCred)
                          ELSE [NewContainer(IF n = "a" THEN "Running" ELSE sb, AliceCred)
                                   EXCEPT !.Controllers = {CGROUP_MEMORY},
                                          !.RequiredControllers = {CGROUP_MEMORY},
                                          !.MemGuarantee = IF n = "a" THEN ga ELSE gb,
                                          !.NewMemGuarantee = IF n = "a" THEN ga ELSE gb]]
    /\ last = NoRequest
    /\ nreq = 0
    /\ ops = NoOps

\* CurrentContainer->NewMemGuarantee = new_val, after the guards and the parse
StageGuarantee ==
    \E t \in Threads, value \in ValuesOf("memory_guarantee"),
       answer \in AnswersOf("memory_guarantee") :
        /\ ops[t].pc = "idle"
        /\ LET r == TMemoryGuarantee_Stage(Container, ThreadTarget(t), value, answer)
           IN  /\ Container' = r.T
               /\ ops' = [ops EXCEPT ![t] = [pc |-> IF r.staged THEN "staged" ELSE "done",
                                             c |-> ThreadTarget(t), value |-> value,
                                             new_val |-> r.new_val, usage |-> 0,
                                             error |-> r.error]]
        /\ UNCHANGED <<last, nreq>>

\* usage = RootContainer->GetTotalMemGuarantee()
ReadTotal ==
    \E t \in Threads :
        /\ ops[t].pc = "staged"
        /\ ops' = [ops EXCEPT ![t].pc = "read", ![t].usage = GetTotalMemGuarantee(Container)]
        /\ UNCHANGED <<Container, last, nreq>>

\* the comparison, and the roll back or the commit
CommitGuarantee ==
    \E t \in Threads :
        /\ ops[t].pc = "read"
        /\ LET r == TMemoryGuarantee_Commit(Container, ops[t].c, ops[t].new_val, ops[t].usage)
           IN  /\ Container' = r.T
               /\ ops' = [ops EXCEPT ![t].pc = "done", ![t].error = r.error]
        /\ UNCHANGED <<last, nreq>>

NextConcurrent == StageGuarantee \/ ReadTotal \/ CommitGuarantee
SpecConcurrent == InitConcurrent /\ [][NextConcurrent]_vars

\* the properties holding a boolean or a number, set over the states of a/b
BoolProps == {"root_readonly", "bind_dns", "isolate", "recharge_on_pgfault", "respawn",
              "weak", "oom_is_fatal"}
NumberProps == {"aging_time", "max_respawns", "umask"}
NextParse == Lifecycle(CleanExit) \/ Set(BoolProps \cup NumberProps)
SpecParse == Init /\ [][NextParse]_vars

\* the network shares of a/b, set whole and by interface through its lifecycle
NetProps == {"net_guarantee", "net_limit", "net_prio"}
NextNet == Lifecycle(CleanExit) \/ Set(NetProps) \/ SetIndexed(NetProps)
SpecNet == Init /\ [][NextNet]_vars

\* the properties whose row of the catalogue names one controller, set whole
\* and, the network shares, by interface
CatalogueProps == {"memory_limit", "memory_guarantee", "anon_limit", "dirty_limit",
                   "recharge_on_pgfault", "cpu_limit", "cpu_guarantee", "cpu_set",
                   "io_policy", "hugetlb_limit", "thread_limit", "devices"} \cup NetProps
NextCatalogue == Lifecycle(CleanExit) \/ Set(CatalogueProps) \/ SetIndexed(NetProps)
SpecCatalogue == Init /\ [][NextCatalogue]_vars

\* the properties whose handler asks for a controller, and controllers itself
ControllerProps == {"io_policy", "memory_guarantee", "memory_limit", "anon_limit",
                    "dirty_limit", "hugetlb_limit", "recharge_on_pgfault", "cpu_limit",
                    "cpu_guarantee", "cpu_set", "io_limit", "io_ops_limit",
                    "net_guarantee", "net_limit", "net_prio", "net", "devices",
                    "thread_limit"}

NextControllers ==
    \/ Lifecycle(CleanExit)
    \/ Set(ControllerProps \cup {"controllers"})
    \/ SetIndexed({"controllers", "io_limit", "io_ops_limit"})
SpecControllers == Init /\ [][NextControllers]_vars

-----------------------------------------------------------------------------
(* The claims, over the last request: its property, the container it
   addressed before (pre) and after (post) the handler ran *)

IsWrite == last.kind \in {"set", "set_indexed"}
IsRead == last.kind \in {"get", "get_indexed"}
PreState == last.pre[last.c].State
Unchanged == last.post = last.pre

\* C1: a set of a property guarded by "alive and stopped" on a container
\* that is not Stopped returns InvalidState, whatever the value, and
\* changes no field of the container.
C1_StoppedGuardRejects ==
    (last.kind = "set" /\ last.prop \in StoppedProps /\ PreState # "Stopped")
        => (last.error = "InvalidState" /\ Unchanged)

\* C2: a set of a property guarded by "alive" on a Dead container returns
\* InvalidState, whatever the value and the principal, and leaves the
\* container unchanged.
C2_AliveGuardRejects ==
    (last.kind = "set" /\ last.prop \in AliveProps /\ PreState = "Dead")
        => (last.error = "InvalidState" /\ Unchanged)

\* C3: set_indexed is gated by the same state guard as set: ulimit on a
\* Dead container, and controllers, env, capabilities and
\* capabilities_ambient on a container that is not Stopped, return
\* InvalidState and change nothing.
C3_IndexedGuardRejects ==
    (/\ last.kind = "set_indexed"
     /\ \/ last.prop = "ulimit" /\ PreState = "Dead"
        \/ /\ last.prop \in {"controllers", "env", "capabilities", "capabilities_ambient"}
           /\ PreState # "Stopped")
        => (last.error = "InvalidState" /\ Unchanged)

\* C4: a get or get_indexed of a property read from the running container
\* returns InvalidState exactly when the container is Stopped, and a get of
\* a property read from the dead container returns InvalidState exactly
\* when the container is not Dead.
C4_ReadGuards ==
    /\ (IsRead /\ last.prop \in RunningReadProps)
           => (last.error = "InvalidState" <=> PreState = "Stopped")
    /\ (IsRead /\ last.prop \in DeadReadProps)
           => (last.error = "InvalidState" <=> PreState # "Dead")

\* a read of a running-container property rejected on the Stopped container
C4_Witness ==
    /\ IsRead
    /\ last.prop \in RunningReadProps
    /\ PreState = "Stopped"
    /\ last.error = "InvalidState"

\* the controller fields of the addressed container before and after
PreControllers == last.pre[last.c].Controllers
PreRequired == last.pre[last.c].RequiredControllers
PostControllers == last.post[last.c].Controllers
PostRequired == last.post[last.c].RequiredControllers
ControllersKept == PostControllers = PreControllers /\ PostRequired = PreRequired

\* every bit the handler asked WantControllers for
WantedMask == UNION {last.wc[i].mask : i \in DOMAIN last.wc}

\* C5: want_controllers(mask) on a Stopped container always succeeds and
\* leaves Controllers = old Controllers OR mask and RequiredControllers =
\* old RequiredControllers OR mask, no other bit of either changed; the
\* container the handler leaves carries exactly these bits.
C5_WantControllersStopped ==
    /\ \A i \in DOMAIN last.wc :
          last.wc[i].state = "Stopped"
              => /\ last.wc[i].error = "Success"
                 /\ last.wc[i].after.Controllers
                        = last.wc[i].before.Controllers \cup last.wc[i].mask
                 /\ last.wc[i].after.RequiredControllers
                        = last.wc[i].before.RequiredControllers \cup last.wc[i].mask
    /\ (IsWrite /\ last.prop # "controllers" /\ PreState = "Stopped")
           => /\ PostControllers = PreControllers \cup WantedMask
              /\ PostRequired = PreRequired \cup WantedMask

\* a Stopped container that already has a controller takes another one
C5_Witness ==
    /\ IsWrite
    /\ PreState = "Stopped"
    /\ PreControllers # {}
    /\ \E i \in DOMAIN last.wc : ~(last.wc[i].mask \subseteq last.wc[i].before.Controllers)
    /\ PostControllers # PreControllers

\* C6: want_controllers(mask) on a container that is not Stopped returns
\* NotSupported when a bit of mask is missing from Controllers, and the
\* property set that asked returns NotSupported with Controllers and
\* RequiredControllers as they were; when every bit of mask is in
\* Controllers it is accepted, and neither field changes.
C6_NoNewControllerAtRuntime ==
    \A i \in DOMAIN last.wc :
        last.wc[i].state # "Stopped"
            => /\ last.wc[i].after = last.wc[i].before
               /\ ControllersKept
               /\ IF last.wc[i].mask \subseteq last.wc[i].before.Controllers
                  THEN last.wc[i].error = "Success"
                  ELSE last.wc[i].error = "NotSupported" /\ last.error = "NotSupported"

\* a running container is refused a controller it was not started with
C6_Witness ==
    /\ IsWrite
    /\ PreState \in {"Running", "Paused"}
    /\ \E i \in DOMAIN last.wc : ~(last.wc[i].mask \subseteq PreControllers)
    /\ last.error = "NotSupported"

\* C7: in every reachable state, after any sequence of set and set_indexed
\* requests (controllers itself included) and state changes, Controllers
\* of every container is a superset of its RequiredControllers.
C7_ControllersSupersetRequired ==
    \A c \in Names : Container[c].RequiredControllers \subseteq Container[c].Controllers

\* controllers is set explicitly on a container that has required ones
C7_Witness ==
    /\ IsWrite
    /\ last.prop = "controllers"
    /\ last.error = "Success"
    /\ PreRequired # {}
    /\ PostControllers # PreControllers

\* C8: once the container has left Stopped no set or set_indexed of any
\* property, controllers and controllers[name] included, changes
\* Controllers or RequiredControllers.
C8_ControllersFrozen ==
    (IsWrite /\ PreState # "Stopped") => ControllersKept

\* the flag list a controllers request asks for: the list itself, or
\* Controllers with the named flags enabled or disabled
RequestedParses ==
    /\ StringParseFlags(IF last.kind = "set" THEN last.value ELSE last.index,
                        ControllersName, ";").error = "Success"
    /\ last.kind = "set_indexed" => StringToBool(last.value, FALSE).error = "Success"

RequestedControllers ==
    LET named == StringParseFlags(IF last.kind = "set" THEN last.value ELSE last.index,
                                  ControllersName, ";").flags
    IN  IF last.kind = "set" THEN named
        ELSE IF StringToBool(last.value, FALSE).value THEN PreControllers \cup named
        ELSE PreControllers \ named

C10_FailedWriteChangesNothing ==
    (IsWrite /\ last.error # "Success") => Unchanged

\* c.has_prop(p) for the property of the last request, before and after it
HadProp == PropOf(last.prop) \in last.pre[last.c].PropMask
HasPropNow == PropOf(last.prop) \in last.post[last.c].PropMask

\* C11: after a successful set of a property the container has the
\* property, also when the value set is the one already stored; after a
\* failed set it has the property exactly if it had it before.
C11_SetMarksProperty ==
    last.kind = "set"
        => IF last.error = "Success" THEN HasPropNow ELSE (HasPropNow <=> HadProp)

\* the properties C12 lists, with the names the registry gives them
FlagProps == {"capabilities", "capabilities_ambient", "controllers"}
UintMapProps == {"io_limit", "io_ops_limit", "net_guarantee", "net_limit", "net_prio"}
RoundTripProps == FlagProps \cup UintMapProps \cup {"ulimit"}

\* v as the property hands it back: a boolean as true or false, a size in
\* decimal without unit, a ulimit as it came
Normalised(prop, v) ==
    IF prop \in FlagProps THEN BoolToString(StringToBool(v, FALSE).value)
    ELSE IF prop \in UintMapProps THEN UintToString(StringToSize(v).size)
    ELSE v

\* get_indexed(index) and get sent after the last request
IndexedAgain ==
    GetIndexedHandler(last.prop, last.post, last.c, last.client, last.index, NoAnswer)
WholeAgain == GetHandler(last.prop, last.post, last.c, last.client, NoAnswer)

\* the flags the index of the last request names, and those get lists
IndexFlags ==
    IF last.prop = "controllers" THEN StringParseFlags(last.index, ControllersName, ";").flags
    ELSE CapParse(last.index).caps.Permitted
WholeFlags ==
    IF last.prop = "controllers"
    THEN StringParseFlags(WholeAgain.value, ControllersName, ";").flags
    ELSE CapParse(WholeAgain.value).caps.Permitted

\* the map get writes, read back as set reads it
WholeUintMap ==
    IF WholeAgain.value # << >> /\ \A k \in 1..Len(WholeAgain.value) : WholeAgain.value[k] # ":"
    THEN MapPut(EmptyMap, <<"f", "s">>, StringToSize(WholeAgain.value).size)
    ELSE StringToUintMap(WholeAgain.value).map

\* the aggregate of get holds the entry set_indexed wrote: the flags named
\* are all listed (true) or all missing (false), the key maps to the value,
\* and a ulimit erased by an empty value is not listed
WholeHasEntry ==
    /\ WholeAgain.error = "Success"
    /\ IF last.prop \in FlagProps
       THEN IF StringToBool(last.value, FALSE).value THEN IndexFlags \subseteq WholeFlags
            ELSE IndexFlags \cap WholeFlags = {}
       ELSE IF last.prop \in UintMapProps
       THEN /\ last.index \in DOMAIN WholeUintMap
            /\ WholeUintMap[last.index] = StringToSize(last.value).size
       ELSE Bind(StringToStringMap(WholeAgain.value).map, LAMBDA m :
                IF last.value = << >> THEN last.index \notin DOMAIN m
                ELSE last.index \in DOMAIN m /\ m[last.index] = StringTrim(last.value))

SetIndexedDone ==
    last.kind = "set_indexed" /\ last.prop \in RoundTripProps /\ last.error = "Success"

RECURSIVE SumMemGuarantee(_, _)
SumMemGuarantee(T, names) ==
    IF names = {} THEN 0
    ELSE Bind(CHOOSE n \in names : TRUE, LAMBDA n :
             T[n].MemGuarantee + SumMemGuarantee(T, names \ {n}))

\* C13: in every state the guarantees of the containers of the tree sum,
\* with the reserve, to at most the memory of the host (a guarantee written
\* as a negative integer is one of 2^64 - n bytes, beyond any host).
C13_GuaranteesFitHost ==
    /\ \A n \in Names : Container[n].MemGuarantee >= 0
    /\ SumMemGuarantee(Container, Names) + memory_guarantee_reserve <= TotalMemory

\* a set of memory_guarantee that reaches the check of the tree sum: the
\* container is not Dead, has or may take the memory controller, and the
\* value reads as a size
GuaranteeChecked ==
    /\ last.kind = "set" /\ last.prop = "memory_guarantee"
    /\ PreState # "Dead"
    /\ PreState = "Stopped" \/ CGROUP_MEMORY \in last.pre[last.c].Controllers
    /\ StringToSize(last.value).error = "Success"

\* the guarantee asked for, and the guarantees the other containers hold
GuaranteeAsked == StringToSizeCast(last.value, last.answer.cast).size
GuaranteeOfOthers == SumMemGuarantee(last.pre, Names \ {last.c})

\* with the guarantee asked for the tree would hold more than the host has
\* left (a negative integer is a guarantee of 2^64 - n bytes)
WouldExceed ==
    \/ GuaranteeAsked < 0
    \/ \E n \in Names \ {last.c} : last.pre[n].MemGuarantee < 0
    \/ GuaranteeOfOthers + GuaranteeAsked + memory_guarantee_reserve > TotalMemory

\* C14: a set of memory_guarantee that would take the sum over the tree,
\* with the reserve, beyond the memory of the host fails with
\* ResourceNotAvailable and leaves MemGuarantee and NewMemGuarantee as they
\* were; one that fits, exactly too, succeeds and stores the guarantee.
C14_OvercommitRefused ==
    GuaranteeChecked =>
        IF WouldExceed
        THEN /\ last.error = "ResourceNotAvailable"
             /\ last.post[last.c].MemGuarantee = last.pre[last.c].MemGuarantee
             /\ last.post[last.c].NewMemGuarantee = last.pre[last.c].NewMemGuarantee
        ELSE /\ last.error = "Success"
             /\ last.post[last.c].MemGuarantee = GuaranteeAsked

\* a set of capabilities that parses, on a Stopped container, by a
\* principal that is not the superuser setting a container root owns
CapLimitAsked ==
    /\ last.kind = "set" /\ last.prop = "capabilities"
    /\ PreState = "Stopped"
    /\ CapParse(last.value).error = "Success"
    /\ ~(IsSuperUser(last.client) /\ IsRootUser(last.pre[last.c].OwnerCred))

RequestedCaps == CapParse(last.value).caps.Permitted

\* the starting bound of the principal, cut by the CapLimit of every ancestor
StartingBound ==
    IF IsSuperUser(last.client) THEN AllCapabilities.Permitted
    ELSE IF last.pre[last.c].VirtMode = "VIRT_MODE_OS" THEN OsModeCapabilities.Permitted
    ELSE SuidCapabilities.Permitted
AncestorBound ==
    {b \in StartingBound : \A p \in Ancestors(last.c) : b \in last.pre[p].CapLimit.Permitted}

CapLimitKept == last.post[last.c].CapLimit = last.pre[last.c].CapLimit

\* C15 as stated: the set succeeds if the capabilities asked for are within
\* the bound and fails with Permission, CapLimit unchanged, otherwise.
C15_AsStated ==
    CapLimitAsked =>
        IF RequestedCaps \subseteq AncestorBound
        THEN last.error = "Success" /\ last.post[last.c].CapLimit.Permitted = RequestedCaps
        ELSE last.error = "Permission" /\ CapLimitKept

\* C15: on a Stopped container, for a principal that is not the superuser
\* setting a container of root, a set of capabilities the kernel has succeeds
\* if they are within the starting bound cut by the CapLimit of every
\* ancestor, and fails with Permission, CapLimit unchanged, otherwise. A
\* capability the kernel does not have is refused with InvalidValue.
C15_BoundedByAncestors ==
    CapLimitAsked =>
        IF ~(RequestedCaps \subseteq AllCapabilities.Permitted)
        THEN last.error = "InvalidValue" /\ CapLimitKept
        ELSE IF RequestedCaps \subseteq AncestorBound
        THEN last.error = "Success" /\ last.post[last.c].CapLimit.Permitted = RequestedCaps
        ELSE last.error = "Permission" /\ CapLimitKept

\* the parent allows NET_ADMIN and SYS_ADMIN and alice asks NET_ADMIN and
\* SYS_PTRACE, both within her starting bound, for the child: refused with
\* Permission
C15_Witness ==
    /\ CapLimitAsked /\ last.c = "a/b" /\ last.client = AliceClient
    /\ last.pre["a"].CapLimit.Permitted = {"CAP_NET_ADMIN", "CAP_SYS_ADMIN"}
    /\ RequestedCaps = {"CAP_NET_ADMIN", "CAP_SYS_PTRACE"}
    /\ RequestedCaps \subseteq StartingBound
    /\ last.error = "Permission"

\* the capabilities every ancestor of c allows
AncestorsAllow(T, c) == {b \in AllCapabilities.Permitted :
                            \A p \in Ancestors(c) : b \in T[p].CapLimit.Permitted}

\* C16: in every state, a container whose CapLimit was set by a request,
\* and not by the superuser on a container of root (the owner of a container
\* never changes here, so that every set of a container alice owns counts),
\* has a CapLimit within the CapLimit of each of its ancestors, also after
\* an ancestor has narrowed its own.
C16_LimitWithinAncestors ==
    \A c \in Names :
        (HasProp(Container, c, "CAPABILITIES") /\ ~IsRootUser(Container[c].OwnerCred))
            => Container[c].CapLimit.Permitted \subseteq AncestorsAllow(Container, c)

\* C17: in every state the ambient capabilities of a container are within
\* its CapLimit, also after capabilities was narrowed once
\* capabilities_ambient was set.
C17_AmbientWithinLimit ==
    \A c \in Names : Container[c].CapAmbient.Permitted \subseteq Container[c].CapLimit.Permitted

\* a set of capabilities_ambient that parses, on a Stopped container
AmbientAsked ==
    /\ last.kind = "set" /\ last.prop = "capabilities_ambient"
    /\ PreState = "Stopped"
    /\ CapParse(last.value).error = "Success"

\* the bound of a direct set of capabilities by the principal
PrincipalBound ==
    IF IsSuperUser(last.client) /\ IsRootUser(last.pre[last.c].OwnerCred)
    THEN StartingBound ELSE AncestorBound

\* the limit an ambient set outside the limit asks for
WidenedLimit == last.pre[last.c].CapLimit.Permitted \cup RequestedCaps

\* the ambient set is allowed and not within the limit
AmbientWidens ==
    /\ AmbientAsked
    /\ RequestedCaps \subseteq last.pre[last.c].CapAllowed.Permitted
    /\ ~(RequestedCaps \subseteq last.pre[last.c].CapLimit.Permitted)

CapAmbientKept == last.post[last.c].CapAmbient = last.pre[last.c].CapAmbient

\* C18: a set of capabilities_ambient to an allowed set A that is not within
\* CapLimit succeeds and leaves CapLimit as the old CapLimit with A added
\* and CapAmbient as A, if the widened limit is within the bound of a set of
\* capabilities by the principal; if not it fails with Permission and both
\* CapLimit and CapAmbient are unchanged.
C18_AmbientWidensLimit ==
    AmbientWidens =>
        IF WidenedLimit \subseteq PrincipalBound
        THEN /\ last.error = "Success"
             /\ last.post[last.c].CapLimit.Permitted = WidenedLimit
             /\ last.post[last.c].CapAmbient.Permitted = RequestedCaps
        ELSE last.error = "Permission" /\ CapLimitKept /\ CapAmbientKept

\* with a limit of NET_ADMIN the ambient set NET_BIND_SERVICE is accepted and
\* the limit then holds both
C18_Witness ==
    /\ AmbientWidens
    /\ last.pre[last.c].CapLimit.Permitted = {"CAP_NET_ADMIN"}
    /\ RequestedCaps = {"CAP_NET_BIND_SERVICE"}
    /\ last.error = "Success"
    /\ last.post[last.c].CapLimit.Permitted = {"CAP_NET_ADMIN", "CAP_NET_BIND_SERVICE"}

\* C19: a successful set of capabilities_ambient leaves CapAmbient within
\* CapAllowed, and for every principal, the superuser too, a set that asks
\* for a capability of the kernel outside the CapAllowed of the container
\* is refused with Permission and leaves CapAmbient unchanged.
C19_AmbientWithinAllowed ==
    (AmbientAsked /\ RequestedCaps \subseteq AllCapabilities.Permitted) =>
        /\ last.error = "Success" =>
               last.post[last.c].CapAmbient.Permitted
                   \subseteq last.post[last.c].CapAllowed.Permitted
        /\ ~(RequestedCaps \subseteq last.pre[last.c].CapAllowed.Permitted) =>
               last.error = "Permission" /\ CapAmbientKept

\* a set of cpu_limit that reaches the comparison with the parent: the
\* container is not Dead, has or may take the cpu controller, and the value
\* reads as a number of cores
CpuLimitChecked ==
    /\ last.kind = "set" /\ last.prop = "cpu_limit"
    /\ PreState # "Dead"
    /\ PreState = "Stopped" \/ CGROUP_CPU \in last.pre[last.c].Controllers
    /\ StringToCpuValue(last.value).error = "Success"

CpuLimitAsked == StringToCpuValue(last.value).value
ParentCpuLimit == last.pre[GetParent(last.c)].CpuLimit

\* C20: a set of cpu_limit by a principal that is not the superuser, to a
\* value above the CpuLimit the parent holds, returns InvalidValue and
\* leaves the CpuLimit of the container as it was; a value up to that of
\* the parent, or any value from the superuser, succeeds and is stored.
C20_CpuLimitWithinParent ==
    CpuLimitChecked =>
        IF ~IsSuperUser(last.client)
           /\ CpuLimitAsked.num * ParentCpuLimit.den > ParentCpuLimit.num * CpuLimitAsked.den
        THEN /\ last.error = "InvalidValue"
             /\ last.post[last.c].CpuLimit = last.pre[last.c].CpuLimit
        ELSE /\ last.error = "Success"
             /\ CpuEqual(last.post[last.c].CpuLimit, CpuLimitAsked)

\* alice is refused 8 cores for a/b under a parent she had limited to 2
C20_Witness ==
    /\ CpuLimitChecked /\ last.c = "a/b" /\ ~IsSuperUser(last.client)
    /\ ParentCpuLimit = [num |-> 2, den |-> 1]
    /\ CpuLimitAsked = [num |-> 8, den |-> 1]
    /\ last.error = "InvalidValue"

\* C21: while every cpu_limit set is sent by a principal that is not the
\* superuser, the CpuLimit of each container is at most the CpuLimit of its
\* parent, whatever the order of the sets on parents and children.
C21_ChildWithinParent ==
    \A n \in Names \ {ROOT_CONTAINER} :
        ~CpuGreater(Container[n].CpuLimit, Container[GetParent(n)].CpuLimit)

\* C22: no value stored in NetPriority is above 7. A set or set_indexed of
\* net_prio that names a value above 7 fails and leaves the whole NetPriority
\* map as it was, the other entries of the request and the index included;
\* when the handler reaches the comparison (the container is not Dead and,
\* for set, the netcls controller is granted) the error is InvalidValue.
NetPrioWrite == IsWrite /\ last.prop = "net_prio"
NetPrioAsked ==
    IF last.kind = "set" THEN StringToUintMap(last.value)
    ELSE Bind(StringToSize(last.value), LAMBDA sz :
             [error |-> sz.error, map |-> MapPut(EmptyMap, last.index, sz.size)])
NetPrioTooHigh ==
    /\ NetPrioAsked.error = "Success"
    /\ \E k \in DOMAIN NetPrioAsked.map : U64Greater(NetPrioAsked.map[k], 7)
NetPrioReached ==
    /\ last.pre[last.c].State # "Dead"
    /\ last.kind = "set" => WantControllers(last.pre, last.c, {CGROUP_NETCLS}).error = "Success"
C22_NetPriorityCapped ==
    /\ \A n \in Names : \A k \in DOMAIN Container[n].NetPriority :
           ~U64Greater(Container[n].NetPriority[k], 7)
    /\ (NetPrioWrite /\ NetPrioTooHigh) =>
           /\ last.error # "Success"
           /\ NetPrioReached => last.error = "InvalidValue"
           /\ last.post[last.c].NetPriority = last.pre[last.c].NetPriority

\* a map with an entry within the cap and one above it is refused on a
\* container that holds a priority already, and so is an index it lacks
C22_Witness ==
    /\ NetPrioWrite /\ NetPrioTooHigh /\ NetPrioReached
    /\ last.error = "InvalidValue"
    /\ DOMAIN last.pre[last.c].NetPriority = {<<"d", "e", "f", "a", "u", "l", "t">>}
    /\ Container[last.c].NetPriority = last.pre[last.c].NetPriority

\* the controller the catalogue lists for a property
CatalogueController(prop) ==
    CASE prop \in {"memory_limit", "memory_guarantee", "anon_limit", "dirty_limit",
                   "recharge_on_pgfault"} -> CGROUP_MEMORY
      [] prop \in {"cpu_limit", "cpu_guarantee"} -> CGROUP_CPU
      [] prop = "cpu_set" -> CGROUP_CPUSET
      [] prop = "io_policy" -> CGROUP_BLKIO
      [] prop = "hugetlb_limit" -> CGROUP_HUGETLB
      [] prop = "thread_limit" -> CGROUP_PIDS
      [] prop = "devices" -> CGROUP_DEVICES
      [] prop \in NetProps -> CGROUP_NETCLS

StoppedWriteDone ==
    /\ IsWrite /\ last.prop \in CatalogueProps
    /\ PreState = "Stopped" /\ last.error = "Success"

\* C23: on a Stopped container, after a successful set or set_indexed of a
\* property whose row of the catalogue lists a controller, Controllers and
\* RequiredControllers both hold the bit of that controller.
C23_StoppedWriteWantsController ==
    StoppedWriteDone =>
        /\ CatalogueController(last.prop) \in last.post[last.c].Controllers
        /\ CatalogueController(last.prop) \in last.post[last.c].RequiredControllers

MemLimitField(prop) ==
    CASE prop = "memory_limit" -> "MemLimit"
      [] prop = "anon_limit" -> "AnonMemLimit"
      [] prop = "dirty_limit" -> "DirtyMemLimit"

MemLimitWrite == last.kind = "set" /\ last.prop \in MemLimitProps
MemLimitAsked == StringToSizeCast(last.value, last.answer.cast)
MemLimitReached ==
    /\ last.pre[last.c].State # "Dead"
    /\ WantControllers(last.pre, last.c, {CGROUP_MEMORY}).error = "Success"
    /\ MemLimitAsked.error = "Success"
BelowMinimum == MemLimitAsked.size # 0 /\ U64Greater(min_memory_limit, MemLimitAsked.size)

\* C24: MemLimit, AnonMemLimit and DirtyMemLimit of every container are 0 or
\* at least min_memory_limit. Where the handler reaches the range check, a
\* set of a non-zero value below the minimum fails with InvalidValue and
\* keeps the old value, and a set of 0 passes and stores 0.
C24_MemoryLimitsAboveMinimum ==
    /\ \A n \in Names : \A p \in MemLimitProps :
           \/ Container[n][MemLimitField(p)] = 0
           \/ ~U64Greater(min_memory_limit, Container[n][MemLimitField(p)])
    /\ (MemLimitWrite /\ MemLimitReached) =>
           IF BelowMinimum
           THEN /\ last.error = "InvalidValue"
                /\ last.post[last.c][MemLimitField(last.prop)]
                       = last.pre[last.c][MemLimitField(last.prop)]
           ELSE /\ last.error = "Success"
                /\ last.post[last.c][MemLimitField(last.prop)] = MemLimitAsked.size

\* a limit of 2K is held and a set of 1 is refused
C24_Witness ==
    /\ MemLimitWrite /\ MemLimitReached /\ BelowMinimum
    /\ last.error = "InvalidValue"
    /\ last.pre[last.c][MemLimitField(last.prop)] = 2048
    /\ Container[last.c][MemLimitField(last.prop)] = 2048

\* C25: while every enable_porto set is sent by a principal that is not the
\* superuser, the AccessLevel of each container is at most the AccessLevel of
\* each of its ancestors, in the order None < ReadOnly < ChildOnly < Normal.
C25_AccessWithinAncestors ==
    \A n \in Names : \A p \in Ancestors(n) :
        AccessRank(Container[n].AccessLevel) <= AccessRank(Container[p].AccessLevel)

EnablePortoTrue == last.kind = "set" /\ last.prop = "enable_porto" /\ last.value = <<"t", "r", "u", "e">>
AncestorRestricts ==
    \E p \in Ancestors(last.c) : last.pre[p].AccessLevel \in {"None", "ReadOnly"}

UnguardedTree == [n \in Names |-> NewContainer("Stopped", RootCred)]

\* the value of the last restore is one the property reads: the superuser's
\* set of it on the unguarded tree succeeds or, for a read-only property, it
\* is a state, a boolean or numbers
RestoreValueValid ==
    IF last.prop \in WritableProps
    THEN SetHandler(last.prop, UnguardedTree, last.c, RootClient, last.value,
                    last.answer).error = "Success"
    ELSE last.value \in {<<"r", "u", "n", "n", "i", "n", "g">>, <<"d", "e", "a", "d">>, <<"t", "r", "u", "e">>, <<"1", "0", "0", "0">>, <<"2", "5", "6">>, <<"-", "1">>, <<"1">>,
                         <<"1", "0", ";", "1", "1", ";", "1", "2">>, <<"1", "0">>, << >>}

RestoreDone == last.kind = "restore" /\ IsPersisted(last.prop)

\* C27: restore of a property with a persist key never returns InvalidState
\* or Permission, in any state of the container and for any principal, and
\* succeeds when its value is one the property reads, read-only properties
\* such as state included.
C27_RestoreBypassesGuards ==
    RestoreDone =>
        /\ last.error \notin {"InvalidState", "Permission"}
        /\ RestoreValueValid => last.error = "Success"

SaveDone == last.kind = "save"
\* what get of the property answers in the state the save was taken in
GetInstead == GetHandler(last.prop, last.pre, last.c, last.client, last.answer)
SameAsGet == last.error = GetInstead.error /\ last.out = GetInstead.value
SavedAnyway == {"oom_killed", "exit_status"}

\* C28 as stated: save of a property with a persist key returns what get
\* returns, value and error, in every state of the container; save of a
\* property without one returns Unknown and no value.
C28_AsStated ==
    SaveDone => IF IsPersisted(last.prop) THEN SameAsGet
                ELSE last.error = "Unknown" /\ last.out = NoValue

\* C28: save of a property with a persist key returns what get returns,
\* except for oom_killed and exit_status: their save returns the stored value
\* in every state, which is what get returns on a Dead container, while get
\* returns InvalidState on any other. Save of a property without a persist
\* key returns Unknown and no value.
C28_SaveIsGet ==
    SaveDone =>
        IF last.prop \in SavedAnyway
        THEN /\ last.error = "Success"
             /\ last.out = IF last.prop = "oom_killed"
                           THEN BoolToString(last.pre[last.c].OomKilled)
                           ELSE last.pre[last.c].ExitStatus
             /\ IF PreState = "Dead" THEN SameAsGet
                ELSE GetInstead.error = "InvalidState"
        ELSE IF IsPersisted(last.prop) THEN SameAsGet
        ELSE last.error = "Unknown" /\ last.out = NoValue

\* the exit status of a running container is saved
C28_Witness ==
    /\ SaveDone /\ last.prop = "exit_status" /\ PreState = "Running"
    /\ last.error = "Success" /\ last.out = 0

\* C29: set of a read-only property returns InvalidValue in every state of
\* the container and for every principal, and changes nothing; net_tos and
\* the hidden raw_* properties included.
C29_ReadOnlySetRefused ==
    (last.kind = "set" /\ last.prop \in ReadOnlyProps) =>
        last.error = "InvalidValue" /\ Unchanged

\* the value of the last set is malformed: the property refuses it from the
\* superuser on a tree where no guard stands in the way
Malformed ==
    SetHandler(last.prop, UnguardedTree, last.c, RootClient, last.value,
               last.answer).error # "Success"

\* some well-formed value of the property is refused to the client of the
\* last set, in the state the set was taken in
WouldBeRefused ==
    \E v \in ValuesOf(last.prop) :
        SetHandler(last.prop, last.pre, last.c, last.client, v, last.answer).error
            = "Permission"

-----------------------------------------------------------------------------
(* Claims: parse failures *)

\* the field of the container a parsed property is stored in
ParsedField(prop) ==
    CASE prop = "root_readonly" -> "RootRo"
      [] prop = "bind_dns" -> "BindDns"
      [] prop = "isolate" -> "Isolate"
      [] prop = "recharge_on_pgfault" -> "RechargeOnPgfault"
      [] prop = "respawn" -> "ToRespawn"
      [] prop = "weak" -> "IsWeak"
      [] prop = "oom_is_fatal" -> "OomIsFatal"
      [] prop = "aging_time" -> "AgingTime"
      [] prop = "max_respawns" -> "MaxRespawns"
      [] prop = "umask" -> "Umask"

\* the value of the last set is not a literal of a boolean property, or
\* opens with no digit for a numeric one
NotParsed ==
    IF last.prop \in BoolProps
    THEN last.value \notin {<<"t", "r", "u", "e">>, <<"f", "a", "l", "s", "e">>}
    ELSE NumberPrefix(last.value, Digits).to = NumberPrefix(last.value, Digits).from

\* the last set was taken in a state its property allows, the controller
\* of recharge_on_pgfault at hand
ParseReached ==
    /\ last.kind = "set" /\ last.prop \in BoolProps \cup NumberProps
    /\ IF last.prop \in StoppedProps
       THEN IsAliveAndStopped(last.pre, last.c) = "Success"
       ELSE IsAlive(last.pre, last.c) = "Success"
    /\ last.prop = "recharge_on_pgfault" =>
           WantControllers(last.pre, last.c, {CGROUP_MEMORY}).error = "Success"

\* C31: a set of a boolean property (root_readonly, bind_dns, isolate,
\* recharge_on_pgfault, respawn, weak, oom_is_fatal) in an allowed state
\* with a value other than true or false returns InvalidValue and leaves
\* the field unchanged; so does a non-numeric aging_time, max_respawns or
\* umask.
C31_ParseFailureIsInvalidValue ==
    (ParseReached /\ NotParsed) =>
        /\ last.error = "InvalidValue"
        /\ last.post[last.c][ParsedField(last.prop)] = last.pre[last.c][ParsedField(last.prop)]

-----------------------------------------------------------------------------
(* Claims: the exit code *)

\* the low seven bits of a wait status, and the signal they name: none when
\* they are 0 (exited) or 127 (stopped)
LowSeven(status) == status - 128 * (status \div 128)
KilledBySignal(status) == LowSeven(status) \in 1..126

\* the exit code the mapping gives to a status and the flag
ExitCodeOf(status, oom) ==
    IF oom THEN <<"-", "9", "9">>
    ELSE IF KilledBySignal(status) THEN <<"-">> \o UintToString(LowSeven(status))
    ELSE UintToString(((status - LowSeven(status)) \div 256) % 256)

ExitCodeRead == last.kind = "get" /\ last.prop = "exit_code" /\ PreState = "Dead"

\* C32: exit_code of a Dead container is "-99" whenever OomKilled is true,
\* whatever ExitStatus holds; else "-<sig>" when ExitStatus encodes the
\* termination by signal sig, the core-dump flag ignored; else the decimal
\* exit status byte (ExitStatus >> 8) & 0xFF.
C32_ExitCodeMapping ==
    ExitCodeRead =>
        /\ last.error = "Success"
        /\ last.out = ExitCodeOf(last.pre[last.c].ExitStatus, last.pre[last.c].OomKilled)

\* a task killed by signal 11 with a core dump (0x8B) reads "-11"
C32_Witness ==
    /\ ExitCodeRead
    /\ last.pre[last.c].ExitStatus = 139 /\ ~last.pre[last.c].OomKilled
    /\ last.out = <<"-", "1", "1">>

-----------------------------------------------------------------------------
(* Claims: the time of death *)

\* time was read on a/b Dead
DeadTimeRead == last.kind = "get" /\ last.prop = "time" /\ PreState = "Dead"

\* the answer of a read of time on a Dead container, from its two times
DeadTimeOf(ct) == (ct.DeathTime - ct.StartTime) \div 1000

-----------------------------------------------------------------------------
(* Claims: the scheduling triple *)

CpuPolicyNames == {<<"n", "o", "r", "m", "a", "l">>, <<"b", "a", "t", "c", "h">>, <<"i", "d", "l", "e">>, <<"h", "i", "g", "h">>, <<"i", "s", "o">>, <<"r", "t">>}

\* the triple (SchedPolicy, SchedPrio, SchedNice) a policy stands for on
\* the host of tree T
PolicyTriple(T, policy) ==
    CASE policy = <<"n", "o", "r", "m", "a", "l">> -> <<"SCHED_OTHER", 0, 0>>
      [] policy = <<"b", "a", "t", "c", "h">> -> <<"SCHED_BATCH", 0, 0>>
      [] policy = <<"i", "d", "l", "e">> -> <<"SCHED_IDLE", 0, 0>>
      [] policy = <<"h", "i", "g", "h">> -> <<"SCHED_OTHER", 0, high_nice>>
      [] policy = <<"i", "s", "o">> -> <<"4", 0, high_nice>>
      [] policy = <<"r", "t">> ->
             IF (T[ROOT_CONTAINER].HasSmart /\ enable_smart) \/ rt_priority = 0
             THEN <<"SCHED_OTHER", 0, rt_nice>>
             ELSE <<"SCHED_RR", rt_priority, rt_nice>>

SchedTriple(ct) == <<ct.SchedPolicy, ct.SchedPrio, ct.SchedNice>>

CpuPolicySet == last.kind = "set" /\ last.prop = "cpu_policy"

\* C34: after any successful cpu_policy set the triple (SchedPolicy,
\* SchedPrio, SchedNice) is the mapping of the stored CpuPolicy computed from
\* scratch: normal (OTHER,0,0), batch (BATCH,0,0), idle (IDLE,0,0), high
\* (OTHER,0,high_nice), iso (4,0,high_nice), rt (OTHER,0,rt_nice), or
\* (RR,rt_priority,rt_nice) when smart is unavailable or disabled and
\* rt_priority is not zero; an unknown policy name returns InvalidValue and
\* changes neither CpuPolicy nor the triple.
C34_TripleFromPolicy ==
    /\ (CpuPolicySet /\ last.error = "Success") =>
           /\ last.post[last.c].CpuPolicy = last.value
           /\ SchedTriple(last.post[last.c]) = PolicyTriple(last.post, last.value)
    /\ (CpuPolicySet /\ last.value \notin CpuPolicyNames /\ PreState # "Dead") =>
           /\ last.error = "InvalidValue"
           /\ Unchanged
    /\ \A c \in Names : SchedTriple(Container[c]) = PolicyTriple(Container, Container[c].CpuPolicy)

\* rt was stored (RR with its priority, the host without smart) and a/b is
\* now set to idle: nothing of the rt triple is left
C34_Witness ==
    /\ CpuPolicySet /\ last.error = "Success"
    /\ SchedTriple(last.pre[last.c]) = <<"SCHED_RR", rt_priority, rt_nice>>
    /\ last.value = <<"i", "d", "l", "e">>
    /\ SchedTriple(last.post[last.c]) = <<"SCHED_IDLE", 0, 0>>

-----------------------------------------------------------------------------
(* Claims: the limit of the streams *)

StdoutLimitSet == last.kind = "set" /\ last.prop = "stdout_limit"
StdoutLimitAsked == StringToSize(last.value)
AboveMaximum == StdoutLimitAsked.error = "Success" /\ StdoutLimitAsked.size > stdout_limit_max

-----------------------------------------------------------------------------
(* Claims: the tuple codec *)

\* a backslash of s[i..] stands before no character it may escape
RECURSIVE StrayBackslash(_, _)
StrayBackslash(s, i) ==
    IF i > Len(s) THEN FALSE
    ELSE IF s[i] = "\\"
         THEN At(s, i + 1) \notin {"\\", " ", ";"} \/ StrayBackslash(s, i + 2)
         ELSE StrayBackslash(s, i + 1)

SplitDone == last.kind = "split"
MergeDone == last.kind = "merge"

\* split yields no empty tuple and no empty token
NothingEmpty(tuples) ==
    \A k \in 1..Len(tuples) :
        Len(tuples[k]) > 0 /\ \A j \in 1..Len(tuples[k]) : Len(tuples[k][j]) > 0

\* C36: with the inner separator ' ' and the outer separator ';',
\* merge(split(s)) = s for every string s without stray backslashes, and
\* split(merge(T)) = T for every list T of non-empty tuples of non-empty
\* tokens, tokens holding separators and backslashes included; split never
\* yields an empty tuple or an empty token, and a trailing outer separator
\* adds no tuple.
C36_TupleCodecRoundTrip ==
    /\ (SplitDone /\ ~StrayBackslash(last.value, 1)) =>
           MergeEscapeStrings(last.out, " ", ";") = last.value
    /\ MergeDone => SplitEscapedString(last.out, " ", ";") = last.value
    /\ SplitDone => NothingEmpty(last.out)
    /\ (SplitDone /\ ~StrayBackslash(last.value, 1)) =>
           SplitEscapedString(last.value \o <<";">>, " ", ";") = last.out

\* canonical strings: the merge of what they split into, again
-----------------------------------------------------------------------------
(* Claims: the flag codec *)

FormatDone == last.kind = "format"
ParseDone == last.kind = "parse"

\* what StringParseFlags reads from the string the last format wrote
ParsedBack == StringParseFlags(last.out, FlagTable, ";")

\* some name of the string parsed last is not in the table
UnknownName ==
    \E k \in 1..Len(GetLines(last.value, 1, ";")) :
        \A n \in 1..Len(FlagTable) : FlagTable[n][2] # StringTrim(GetLines(last.value, 1, ";")[k])

\* C37: for every 64-bit value x and a fixed table of masks and names,
\* parse(format(x)) succeeds and equals x, the values with bits no entry of
\* the table matches (written as trailing hex) and those that overlap a mask
\* of several bits only partly included; parse of an unknown name fails
\* with InvalidValue.
C37_FlagsRoundTrip ==
    /\ FormatDone => ParsedBack.error = "Success" /\ ParsedBack.flags = last.value
    /\ (ParseDone /\ UnknownName) => last.out.error = "InvalidValue"

\* x is made of whole masks of the table
WholeMasks(x) == x = UNION {FlagTable[n][1] : n \in {m \in 1..Len(FlagTable) : FlagTable[m][1] \subseteq x}}

-----------------------------------------------------------------------------
(* Claims: the staging slot of the memory guarantee *)

GuaranteeSet == last.kind = "set" /\ last.prop = "memory_guarantee"

\* the staging slot of container n of tree T holds what the container holds
StagingSettled(T, n) == T[n].NewMemGuarantee = T[n].MemGuarantee

\* C38: NewMemGuarantee is a transient staging slot: whenever a set of
\* memory_guarantee has returned, with success, ResourceNotAvailable, a
\* parse error, a state error or a controller error, NewMemGuarantee equals
\* MemGuarantee on that container, given that they were equal before the
\* call; a refused request is not counted in the later sums over the tree.
C38_StagingIsTransient ==
    /\ (GuaranteeSet /\ StagingSettled(last.pre, last.c)) => StagingSettled(last.post, last.c)
    /\ \A n \in Names : StagingSettled(Container, n)
    /\ (GuaranteeSet /\ last.error # "Success") =>
           GetTotalMemGuarantee(last.post) = GetTotalMemGuarantee(last.pre)

\* a/b holds 30 and asks for 95: refused, and the slot is back at 30
C38_Witness ==
    /\ GuaranteeSet /\ last.error = "ResourceNotAvailable"
    /\ last.pre[last.c].MemGuarantee = 30 /\ GuaranteeAsked = 95
    /\ last.post[last.c].NewMemGuarantee = 30 /\ last.post[last.c].MemGuarantee = 30

-----------------------------------------------------------------------------
(* Claims: two sets of the memory guarantee at once *)

BothReturned == \A t \in Threads : ops[t].pc = "done"

\* C39: two clients set memory_guarantee on two different containers of the
\* same tree at once, the steps of TMemoryGuarantee::Set (stage
\* NewMemGuarantee, read the total of the tree, then commit MemGuarantee or
\* roll the staging back) interleaved in any order: in every state where
\* both operations have returned the sum of MemGuarantee over the tree plus
\* the reserve is within the memory of the host, and NewMemGuarantee of each
\* container equals its MemGuarantee.
C39_ConcurrentGuarantees ==
    BothReturned =>
        /\ \A n \in Names : Container[n].MemGuarantee >= 0
        /\ SumMemGuarantee(Container, Names) + memory_guarantee_reserve <= TotalMemory
        /\ \A n \in Names : StagingSettled(Container, n)

====
